---- MODULE Spec2Model ----
(***************************************************************************)
(* A model of sn_bindgen's C# binding generator: the driver of src/lib.rs  *)
(* (Bindgen::compile, compile_from_source) feeding the declarations of a   *)
(* source string, in order, to the C# backend (parse_ty, parse_struct,     *)
(* parse_enum, parse_fn, parse_const, finalise_output), and the documents  *)
(* the backend leaves in the Outputs map.                                   *)
(*                                                                          *)
(* Text is modelled structurally.  An identifier is the sequence of its    *)
(* underscore-delimited words (data_ptr is <<"data", "ptr">>); a host type *)
(* is a sequence of tokens (byte[] is <<"byte", "[]">>); a document is the *)
(* sequence of its fragments, and the empty string is the empty sequence.  *)
(* Every fragment carries, next to its text, the set `src` of the          *)
(* positions of the declarations it was emitted for.                       *)
(***************************************************************************)
EXTENDS Integers, Sequences, FiniteSets, TLC

(***************************************************************************)
(* Bounds of the model.                                                     *)
(***************************************************************************)
\* The longest declaration sequence given to the engine.
MaxDecls == 3
\* The longest root source file.
MaxRoot == 3
\* The most custom constants registered before compiling.
MaxCustom == 1
\* The most custom constants registered where their order is looked at.
MaxRegistered == 2
\* The most components of a file name.
MaxPath == 3
\* The width of usize in bits, cut down to what the integers here hold; the
\* slice needs only that 2^UsizeBits exceeds the length of a path by 2.
UsizeBits == 16

(***************************************************************************)
(* Source types (syn::Type as the backend reads it).                        *)
(***************************************************************************)
Ty(k, n, args, names) == [k |-> k, n |-> n, args |-> args, names |-> names]

TPrim(n) == Ty("prim", n, <<>>, <<>>)
TUnit == Ty("unit", "", <<>>, <<>>)
TNamed(n) == Ty("named", n, <<>>, <<>>)
TPtr(mutability, t) == Ty("ptr", mutability, <<t>>, <<>>)
\* [t; 10]: the size is the literal's text.
TArr(t, size) == Ty("arr", size, <<t>>, <<>>)
\* [t; NONCE_LEN]: the size is a named constant, kept with its words.
TArrConst(t, size, words) == Ty("arr", size, <<t>>, <<words>>)
\* extern "C" fn(params): the parameter types, and their names when written.
TCallback(args, names) == Ty("cb", "", args, names)

U8 == TPrim("u8")
I32 == TPrim("i32")
U64 == TPrim("u64")
USize == TPrim("usize")
Bool == TPrim("bool")
VoidPtr == TPtr("mut", TPrim("c_void"))
CStr == TPtr("const", TPrim("c_char"))

Param(name, ty) == [name |-> name, ty |-> ty]

(***************************************************************************)
(* Declarations (syn::Item).  `attrs` holds the markers the backend reads: *)
(* "repr_c", "no_mangle", "extern_c".  `name` is the words of the item's   *)
(* identifier.  `params` are a struct's fields or a                        *)
(* function's inputs; `ty` is an alias' target, a function's output or a   *)
(* constant's type.                                                         *)
(***************************************************************************)
Decl(kind, name, attrs, params, ty, value) ==
    [kind |-> kind, name |-> name, attrs |-> attrs, params |-> params,
     ty |-> ty, value |-> value]

Struct(name, attrs, fields) == Decl("struct", <<name>>, attrs, fields, TUnit, "")
Enum(name, attrs, variants) ==
    Decl("enum", <<name>>, attrs, [i \in DOMAIN variants |-> Param(<<variants[i]>>, TUnit)], TUnit, "")
TypeAlias(name, target) == Decl("type", <<name>>, {}, <<>>, target, "")
Fn(name, attrs, inputs, output) == Decl("fn", name, attrs, inputs, output, "")
Const(name, ty, value) == Decl("const", <<name>>, {}, <<>>, ty, value)
\* Any other item (use, impl, static, ...).
Other == Decl("other", <<>>, {}, <<>>, TUnit, "")

Exported == {"no_mangle", "extern_c"}

(***************************************************************************)
(* Naming transformer.                                                      *)
(***************************************************************************)
\* The word with its first letter in upper case, over the words the inputs use.
Capitalise(w) ==
    CASE w = "data" -> "Data"
      [] w = "ptr" -> "Ptr"
      [] w = "len" -> "Len"
      [] w = "id" -> "Id"
      [] w = "key" -> "Key"
      [] w = "records" -> "Records"
      [] w = "sender" -> "Sender"
      [] w = "receiver" -> "Receiver"
      [] w = "ids" -> "Ids"
      [] w = "result" -> "Result"
      [] w = "user" -> "User"
      [] w = "entry" -> "Entry"
      [] w = "engine" -> "Engine"
      [] w = "input" -> "Input"
      [] w = "output" -> "Output"
      [] w = "num" -> "Num"
      [] w = "name" -> "Name"
      [] w = "bar" -> "Bar"
      [] w = "cb" -> "Cb"
      [] w = "cb0" -> "Cb0"
      [] w = "cb1" -> "Cb1"
      [] w = "fun" -> "Fun"
      [] w = "fun0" -> "Fun0"
      [] w = "fun1" -> "Fun1"
      [] w = "fun2" -> "Fun2"
      [] w = "fun3" -> "Fun3"
      [] w = "arg0" -> "Arg0"
      [] w = "arg1" -> "Arg1"
      [] w = "arg2" -> "Arg2"
      [] w = "o" -> "O"
      [] w = "app" -> "App"
      [] w = "handle" -> "Handle"
      [] w = "arg" -> "Arg"
      [] w = "nonce" -> "Nonce"
      [] w = "enabled" -> "Enabled"
      [] w = "random" -> "Random"
      [] w = "numbers" -> "Numbers"
      [] w = "widget" -> "Widget"
      [] w = "gadgets" -> "Gadgets"
      [] OTHER -> w

\* to_upper_camel: fun_name -> FunName.
ToUpperCamel(words) == [i \in DOMAIN words |-> Capitalise(words[i])]

\* to_lower_camel: user_data -> userData.
ToLowerCamel(words) ==
    [i \in DOMAIN words |-> IF i = 1 THEN words[i] ELSE Capitalise(words[i])]

\* The words before the last one: data_ptr -> data.
Base(words) == SubSeq(words, 1, Len(words) - 1)

HasSuffix(words, suffix) == Len(words) >= 2 /\ words[Len(words)] = suffix

IsPointer(t) == t.k = "ptr"

\* A variant that looks at the pointer/size shape alone, not at the names.
AnyPointerSizePair(params, i) ==
    /\ i >= 1
    /\ i + 1 <= Len(params)
    /\ IsPointer(params[i].ty)
    /\ params[i + 1].ty = USize

\* Array-pair detection: params[i] is a pointer named <base>_ptr and
\* params[i+1] a usize named <base>_len.
IsArrayPair(params, i) ==
    /\ i >= 1
    /\ i + 1 <= Len(params)
    /\ IsPointer(params[i].ty)
    /\ params[i + 1].ty = USize
    /\ HasSuffix(params[i].name, "ptr")
    /\ HasSuffix(params[i + 1].name, "len")
    /\ Base(params[i].name) = Base(params[i + 1].name)

\* params[i] is the length half of an array pair.
IsArrayLen(params, i) == i >= 2 /\ IsArrayPair(params, i - 1)

\* A variant of the detection that takes a struct with exactly one array
\* pair only.
HasOneArrayPair(params) ==
    Cardinality({i \in DOMAIN params : IsArrayPair(params, i)}) = 1

\* Dynamic-array struct detection: some adjacent field pair is an array pair.
HasArrayPair(params) == \E i \in DOMAIN params : IsArrayPair(params, i)

(***************************************************************************)
(* Type environment: the aliases seen so far, the registered opaque types  *)
(* and the names of the structs emitted as <Name>Native.                   *)
(***************************************************************************)
NoAliases == [n \in {} |-> TUnit]

RegisterAlias(aliases, name, target) ==
    [n \in DOMAIN aliases \cup {name} |-> IF n = name THEN target ELSE aliases[n]]

TError(what) == Ty("error", what, <<>>, <<>>)

RECURSIVE ResolveTyKnownOnly(_, _, _)
\* A variant that takes a name that is no alias for an error.
ResolveTyKnownOnly(aliases, t, seen) ==
    CASE t.k = "named" ->
            IF t.n \in DOMAIN aliases /\ t.n \notin seen
            THEN ResolveTyKnownOnly(aliases, aliases[t.n], seen \cup {t.n})
            ELSE TError("unresolved")
      [] t.k \in {"ptr", "arr", "cb"} ->
            [t EXCEPT !.args = [i \in DOMAIN t.args |->
                                   ResolveTyKnownOnly(aliases, t.args[i], seen)]]
      [] OTHER -> t

RECURSIVE ResolveTy(_, _, _)
\* resolve: follows alias chains to a fixed point, through pointers, arrays
\* and callback signatures; a cyclic alias is an error.  A name that is no
\* alias stays as it is written.
ResolveTy(aliases, t, seen) ==
    CASE t.k = "named" ->
            IF t.n \in seen THEN TError("cyclic")
            ELSE IF t.n \in DOMAIN aliases
                 THEN ResolveTy(aliases, aliases[t.n], seen \cup {t.n})
                 ELSE t
      [] t.k \in {"ptr", "arr", "cb"} ->
            [t EXCEPT !.args = [i \in DOMAIN t.args |-> ResolveTy(aliases, t.args[i], seen)]]
      [] OTHER -> t

Resolve(aliases, t) == ResolveTy(aliases, t, {})

RECURSIVE HasError(_)
HasError(t) ==
    \/ t.k = "error"
    \/ (t.k \in {"ptr", "arr", "cb"} /\ \E i \in DOMAIN t.args : HasError(t.args[i]))

RECURSIVE PointerDepth(_)
PointerDepth(t) == IF t.k = "ptr" THEN 1 + PointerDepth(t.args[1]) ELSE 0

(***************************************************************************)
(* Type mapping engine: a resolved source type to its host type.           *)
(***************************************************************************)
PrimHost(n) ==
    CASE n = "i32" -> "int"
      [] n = "u64" -> "ulong"
      [] n = "usize" -> "ulong"
      [] n = "u8" -> "byte"
      [] n = "bool" -> "bool"
      [] OTHER -> n

\* The name a primitive contributes to a delegate name.
PrimName(n) ==
    CASE n = "i32" -> "Int"
      [] n = "u64" -> "ULong"
      [] n = "usize" -> "ULong"
      [] n = "u8" -> "Byte"
      [] n = "bool" -> "Bool"
      [] OTHER -> n

\* A mapped type: the parameter modifier (ref, out), the host type and the
\* marshaling directive; `err` names the error when there is no mapping.
Host(mod, ty, marshal) == [err |-> "", mod |-> mod, ty |-> ty, marshal |-> marshal]
NoHost(err) == [err |-> err, mod |-> "", ty |-> <<>>, marshal |-> <<>>]
IntPtr == Host("", <<"IntPtr">>, <<>>)

\* The host name of a struct: <Name>Native once it was emitted under that name.
HostName(env, n) == IF n \in env.native THEN <<n, "Native">> ELSE <<n>>

IsOpaque(env, n) == \E i \in DOMAIN env.opaque : env.opaque[i] = n

\* The size of a fixed array as a directive: the literal, or a cast of the
\* named constant.
SizeExpr(t) == IF t.names = <<>> THEN <<t.n>> ELSE <<"(int)", "Constants", t.n>>

RECURSIVE TypeName(_)
\* The name a type contributes to a delegate name.
TypeName(t) ==
    CASE t.k = "prim" -> <<PrimName(t.n)>>
      [] t.k = "named" -> <<t.n>>
      [] t.k = "ptr" -> TypeName(t.args[1])
      [] t.k = "arr" ->
            TypeName(t.args[1]) \o <<"Array">>
                \o (IF t.names = <<>> THEN <<t.n>> ELSE ToUpperCamel(t.names[1]))
      [] OTHER -> <<>>

ArgName(i) ==
    CASE i = 1 -> <<"arg0">>
      [] i = 2 -> <<"arg1">>
      [] i = 3 -> <<"arg2">>
      [] OTHER -> <<"arg3">>

\* A callback's parameters, named argN where the signature names none.
CbParams(cb) ==
    [i \in DOMAIN cb.args |->
        Param(IF i \in DOMAIN cb.names THEN cb.names[i] ELSE ArgName(i), cb.args[i])]

RECURSIVE CbNameFromAnyPair(_, _)
\* A variant that takes every pointer followed by a usize for a list.
CbNameFromAnyPair(params, i) ==
    IF i > Len(params) THEN <<>>
    ELSE IF AnyPointerSizePair(params, i)
         THEN TypeName(params[i].ty.args[1]) \o <<"List">> \o CbNameFromAnyPair(params, i + 2)
         ELSE TypeName(params[i].ty) \o CbNameFromAnyPair(params, i + 1)

RECURSIVE CbNameFrom(_, _)
CbNameFrom(params, i) ==
    IF i > Len(params) THEN <<>>
    ELSE IF IsArrayPair(params, i)
         THEN TypeName(params[i].ty.args[1]) \o <<"List">> \o CbNameFrom(params, i + 2)
         ELSE TypeName(params[i].ty) \o CbNameFrom(params, i + 1)

\* Callback/delegate naming: from the parameters after the user-data slot.
DelegateName(cb) ==
    LET shape == CbNameFrom(CbParams(cb), 2)
    IN  (IF shape = <<>> THEN <<"None">> ELSE shape) \o <<"Cb">>

RECURSIVE MapType(_, _, _)
\* ctx is where the type stands: "param" (a function parameter or return
\* type), "field" (a struct field or a constant), "cbparam" (a parameter of
\* a callback), "elem" (an array element).
MapType(env, t, ctx) ==
    CASE t.k = "prim" ->
            Host("", <<PrimHost(t.n)>>, IF t.n = "bool" THEN <<"U1">> ELSE <<>>)
      [] t.k = "unit" -> Host("", <<"void">>, <<>>)
      [] t.k = "named" -> Host("", HostName(env, t.n), <<>>)
      [] t.k = "arr" ->
            LET e == MapType(env, t.args[1], "elem")
            IN  IF e.err # "" THEN e
                ELSE IF t.args[1].k \in {"arr", "cb"} THEN NoHost("UnsupportedTypeError")
                ELSE IF ctx = "cbparam" THEN IntPtr
                ELSE Host("", e.ty \o <<"[]">>, <<"ByValArray", "SizeConst">> \o SizeExpr(t))
      [] t.k = "ptr" ->
            LET to == t.args[1]
            IN  IF PointerDepth(t) > 2 THEN NoHost("UnsupportedTypeError")
                ELSE IF to = TPrim("c_char") /\ t.n = "const"
                     THEN Host("", <<"String">>, <<"LPStr">>)
                ELSE IF to = TPrim("c_void") THEN IntPtr
                ELSE IF to.k = "ptr"
                     THEN IF ctx = "param" THEN Host("out", <<"IntPtr">>, <<>>) ELSE IntPtr
                ELSE IF to.k = "named" /\ IsOpaque(env, to.n) THEN Host("", <<to.n>>, <<>>)
                ELSE IF ctx \in {"param", "cbparam"}
                     THEN LET h == MapType(env, to, ctx)
                          IN  IF h.err # "" THEN h ELSE Host("ref", h.ty, <<>>)
                ELSE IntPtr
      [] t.k = "cb" -> Host("", DelegateName(t), <<>>)
      [] t.k = "error" -> NoHost("UnresolvedTypeError")
      [] OTHER -> NoHost("UnsupportedTypeError")

\* resolve, then map.
HostType(env, t, ctx) ==
    LET r == Resolve(env.aliases, t)
    IN  IF HasError(r) THEN NoHost("UnresolvedTypeError") ELSE MapType(env, r, ctx)

(***************************************************************************)
(* Fragments and documents.                                                 *)
(***************************************************************************)
TypesDoc == "Types.cs"
ConstantsDoc == "Constants.cs"
BackendDoc == "Backend.cs"
InterfaceDoc == "IBackend.cs"
Docs == {TypesDoc, ConstantsDoc, BackendDoc, InterfaceDoc}

Body(kind, call, args) == [kind |-> kind, call |-> call, args |-> args]
NoBody == Body("", <<>>, <<>>)

\* One fragment of a document: what it is, the declarations it was emitted
\* for, its name, its (return) type, its parameters or fields, its body.
Frag(frag, src, name, ret, params, body) ==
    [frag |-> frag, src |-> src, name |-> name, ret |-> ret, params |-> params,
     body |-> body]

\* One rendered parameter or field.
Rendered(h, name) == [mod |-> h.mod, ty |-> h.ty, name |-> name, marshal |-> h.marshal]

\* The Outputs map is a HashMap: a document that was never written has no
\* entry, and reads as the empty string.
NoOutputs == [d \in {} |-> <<>>]

fetch(outs, name) == IF name \in DOMAIN outs THEN outs[name] ELSE <<>>

Append1(outs, name, frags) ==
    [d \in DOMAIN outs \cup {name} |->
        IF d = name THEN fetch(outs, name) \o frags ELSE outs[d]]

(***************************************************************************)
(* Struct, enum, alias and constant emitters.  Each returns the backend    *)
(* state and the documents after the declaration at position j, or the     *)
(* error that made it fail.                                                 *)
(***************************************************************************)
Done(lang, outs) == [err |-> "", lang |-> lang, outputs |-> outs]
Failed(err, lang, outs) == [err |-> err, lang |-> lang, outputs |-> outs]

\* The first error among mapped types, "" when all mapped.
FirstError(hs) ==
    IF \E i \in DOMAIN hs : hs[i].err # ""
    THEN hs[CHOOSE i \in DOMAIN hs :
                hs[i].err # "" /\ \A k \in DOMAIN hs : hs[k].err # "" => i <= k].err
    ELSE ""

\* A variant that takes every struct or enum for a C-layout one.
AnyLayout(d) == d.kind \in {"struct", "enum"}

IsReprC(d) == "repr_c" \in d.attrs

\* A variant that emits every struct under its own name.
StructNamePlain(d) == d.name

\* The name a struct is emitted under.
StructName(d) == IF HasArrayPair(d.params) THEN d.name \o <<"Native">> ELSE d.name

parse_struct(lang, outs, d, j) ==
    IF ~IsReprC(d) THEN Done(lang, outs)
    ELSE LET hs == [i \in DOMAIN d.params |-> HostType(lang, d.params[i].ty, "field")]
             fields == [i \in DOMAIN d.params |->
                            Rendered(hs[i], ToUpperCamel(d.params[i].name))]
             native == IF HasArrayPair(d.params) THEN lang.native \cup {d.name[1]}
                       ELSE lang.native
         IN  IF FirstError(hs) # "" THEN Failed(FirstError(hs), lang, outs)
             ELSE Done([lang EXCEPT !.native = native],
                       Append1(outs, TypesDoc,
                               <<Frag("struct", {j}, StructName(d), <<>>, fields, NoBody)>>))

parse_enum(lang, outs, d, j) ==
    IF ~IsReprC(d) THEN Done(lang, outs)
    ELSE LET variants == [i \in DOMAIN d.params |->
                            Rendered(Host("", <<>>, <<>>), d.params[i].name)]
         IN  Done(lang, Append1(outs, TypesDoc,
                                <<Frag("enum", {j}, d.name, <<>>, variants, NoBody)>>))

parse_ty(lang, outs, d, j) ==
    Done([lang EXCEPT !.aliases = RegisterAlias(lang.aliases, d.name[1], d.ty)], outs)

parse_const(lang, outs, d, j) ==
    LET h == HostType(lang, d.ty, "field")
    IN  IF h.err # "" THEN Failed(h.err, lang, outs)
        ELSE Done(lang, Append1(outs, ConstantsDoc,
                                <<Frag("const", {j}, d.name, h.ty, <<>>,
                                       Body("value", <<d.value>>, <<>>))>>))

(***************************************************************************)
(* Function/callback emitter.                                               *)
(***************************************************************************)
\* A variant that takes one marker alone for an exported function.
ExportedByEitherMarker(d) == "no_mangle" \in d.attrs \/ "extern_c" \in d.attrs

\* A function is emitted only with both markers: #[no_mangle] and extern "C".
IsExportedFn(d) == "no_mangle" \in d.attrs /\ "extern_c" \in d.attrs

IsCallback(t) == t.k = "cb"

ResolvedInputs(lang, d) ==
    [i \in DOMAIN d.params |-> Param(d.params[i].name, Resolve(lang.aliases, d.params[i].ty))]

CallbackIndices(inputs) == {i \in DOMAIN inputs : IsCallback(inputs[i].ty)}

NumCallbacks(inputs) == Cardinality(CallbackIndices(inputs))

\* The user-data slot: a *mut c_void immediately followed by a callback.
IsUserData(inputs, i) ==
    /\ inputs[i].ty = VoidPtr
    /\ i + 1 <= Len(inputs)
    /\ IsCallback(inputs[i + 1].ty)

RECURSIVE Ascending(_)
\* The members of a set of numbers, in ascending order.
Ascending(S) ==
    IF S = {} THEN <<>>
    ELSE LET m == CHOOSE x \in S : \A y \in S : x <= y
         IN  <<m>> \o Ascending(S \ {m})

\* The host type of input i in the native import.
NativeHost(lang, inputs, i) ==
    IF IsArrayPair(inputs, i)
    THEN LET e == MapType(lang, inputs[i].ty.args[1], "elem")
         IN  IF e.err # "" THEN e
             ELSE Host("", e.ty \o <<"[]">>, <<"LPArray", "SizeParamIndex", ToString(i)>>)
    ELSE MapType(lang, inputs[i].ty, "param")

\* The host name of input i: the pointer of an array pair takes the pair's name.
NativeName(inputs, i) ==
    IF IsArrayPair(inputs, i) THEN ToLowerCamel(Base(inputs[i].name))
    ELSE ToLowerCamel(inputs[i].name)

\* The host types of the inputs in the native import.
NativeHosts(lang, inputs) == [i \in DOMAIN inputs |-> NativeHost(lang, inputs, i)]

\* The native import keeps every parameter.
NativeParams(inputs, hosts) ==
    [i \in DOMAIN inputs |-> Rendered(hosts[i], NativeName(inputs, i))]

\* The inputs that stay parameters of the public wrapper: the length of an
\* array pair is merged into its pointer, the user-data slot and the
\* callbacks are supplied by the wrapper.
WrapperIndices(inputs) ==
    {i \in DOMAIN inputs :
        ~IsArrayLen(inputs, i) /\ ~IsCallback(inputs[i].ty) /\ ~IsUserData(inputs, i)}

WrapperSlots(inputs, hosts, idx) ==
    [k \in DOMAIN idx |->
        Rendered([hosts[idx[k]] EXCEPT !.marshal = <<>>], NativeName(inputs, idx[k]))]

WrapperParams(inputs, hosts) == WrapperSlots(inputs, hosts, Ascending(WrapperIndices(inputs)))

\* What the wrapper passes for input i of the native import.
CallArg(inputs, hosts, i) ==
    IF IsArrayLen(inputs, i)
    THEN <<"(ulong)">> \o ToLowerCamel(Base(inputs[i - 1].name)) \o <<".Length">>
    ELSE IF IsUserData(inputs, i) THEN <<"userData">>
    ELSE IF IsCallback(inputs[i].ty) THEN <<"On">> \o hosts[i].ty
    ELSE (IF hosts[i].mod = "" THEN <<>> ELSE <<hosts[i].mod>>) \o NativeName(inputs, i)

CallArgs(inputs, hosts) == [i \in DOMAIN inputs |-> CallArg(inputs, hosts, i)]

\* A callback's parameters as the delegate declares them.
DelegateParams(lang, cb) ==
    LET ps == CbParams(cb)
    IN  [i \in DOMAIN ps |->
            Rendered(IF IsArrayPair(ps, i) THEN IntPtr ELSE MapType(lang, ps[i].ty, "cbparam"),
                     IF ps[i].ty.k = "arr" THEN ToLowerCamel(ps[i].name \o <<"ptr">>)
                     ELSE ToLowerCamel(ps[i].name))]

\* The error of a callback signature, "" when it can be emitted.
CallbackError(lang, cb) ==
    LET ps == CbParams(cb)
    IN  IF \E i \in DOMAIN ps : ps[i].ty.k = "arr" /\ ps[i].ty.args[1].k = "arr"
        THEN "UnsupportedCallbackShapeError"
        ELSE FirstError([i \in DOMAIN ps |-> MapType(lang, ps[i].ty, "cbparam")])

RECURSIVE PayloadFrom(_, _, _)
\* The values a callback delivers after the user data and the result.
PayloadFrom(lang, params, i) ==
    IF i > Len(params) THEN <<>>
    ELSE IF IsArrayPair(params, i)
         THEN <<MapType(lang, params[i].ty.args[1], "elem").ty \o <<"[]">>>>
                  \o PayloadFrom(lang, params, i + 2)
         ELSE <<MapType(lang, params[i].ty, "field").ty>> \o PayloadFrom(lang, params, i + 1)

Payload(lang, cb) == PayloadFrom(lang, CbParams(cb), 3)

RECURSIVE Joined(_)
Joined(tys) ==
    IF Len(tys) = 0 THEN <<>>
    ELSE IF Len(tys) = 1 THEN tys[1]
    ELSE tys[1] \o <<",">> \o Joined(Tail(tys))

\* The pending-completion handle: Task, Task<T> or Task<(T1, T2)>.
TaskType(payload) ==
    IF payload = <<>> THEN <<"Task">>
    ELSE IF Len(payload) = 1 THEN <<"Task", "<">> \o payload[1] \o <<">">>
    ELSE <<"Task", "<", "(">> \o Joined(payload) \o <<")", ">">>

RECURSIVE CompleteArgs(_, _)
\* What the trampoline hands to the completion: the user data, the result
\* and the delivered values, arrays copied out of native memory.
CompleteArgs(params, i) ==
    IF i > Len(params) THEN <<>>
    ELSE IF IsArrayPair(params, i)
         THEN <<(IF params[i].ty.args[1].k = "prim" THEN <<"CopyToByteArray">>
                 ELSE <<"CopyToObjectArray">> \o TypeName(params[i].ty.args[1]))
                \o ToLowerCamel(params[i].name) \o ToLowerCamel(params[i + 1].name)>>
              \o CompleteArgs(params, i + 2)
    ELSE IF params[i].ty.k = "arr"
         THEN <<<<"CopyToByteArray">> \o ToLowerCamel(params[i].name \o <<"ptr">>)
                \o (IF params[i].ty.names = <<>> THEN <<params[i].ty.n>>
                    ELSE <<"Constants", params[i].ty.n>>)>>
              \o CompleteArgs(params, i + 1)
    ELSE <<(IF params[i].ty.k = "ptr" /\ params[i].ty # VoidPtr THEN <<"ref">> ELSE <<>>)
           \o ToLowerCamel(params[i].name)>>
         \o CompleteArgs(params, i + 1)

\* One entry of the callback registry: the delegate, the functions that take
\* it (users) and those among them that take it as their only callback.
CallbackEntry(lang, cb, j, single) ==
    [name |-> DelegateName(cb),
     params |-> DelegateParams(lang, cb),
     complete |-> CompleteArgs(CbParams(cb), 1),
     users |-> {j},
     singles |-> IF single THEN {j} ELSE {}]

\* Callbacks are kept once per delegate name.
RegisterCallback(callbacks, e) ==
    IF \E c \in callbacks : c.name = e.name
    THEN {IF c.name = e.name
          THEN [c EXCEPT !.users = c.users \cup e.users, !.singles = c.singles \cup e.singles]
          ELSE c : c \in callbacks}
    ELSE callbacks \cup {e}

RECURSIVE RegisterCallbacks(_, _)
RegisterCallbacks(callbacks, entries) ==
    IF entries = <<>> THEN callbacks
    ELSE RegisterCallbacks(RegisterCallback(callbacks, Head(entries)), Tail(entries))

NativeFnName(d) == ToUpperCamel(d.name) \o <<"Native">>

\* The rendered signature of a function: the parameters of its import and
\* of its wrapper, the arguments of the call, the return type, the
\* pending-completion type when it has one callback, the number of callbacks.
Signature(lang, inputs, hosts, ret, cbs) ==
    [native |-> NativeParams(inputs, hosts),
     wrapper |-> WrapperParams(inputs, hosts),
     args |-> CallArgs(inputs, hosts),
     ret |-> ret.ty,
     task |-> IF Len(cbs) = 1 THEN TaskType(Payload(lang, inputs[cbs[1]].ty)) ELSE <<>>,
     callbacks |-> Len(cbs)]

\* [DllImport(DLL_NAME, EntryPoint = "<name>")] internal static extern ...
ImportFrag(d, sig, j) ==
    Frag("import", {j}, NativeFnName(d), sig.ret, sig.native, Body("extern", d.name, <<>>))

\* public <ret> Name(params) { [return] NameNative(args); }
SyncWrapperFrag(d, sig, j) ==
    Frag("wrapper", {j}, ToUpperCamel(d.name), sig.ret, sig.wrapper,
         Body("sync", NativeFnName(d), sig.args))

\* public Task<T> Name(params) { PrepareTask; NameNative(args, userData, OnCb); return task; }
AsyncWrapperFrag(d, sig, j) ==
    Frag("wrapper", {j}, ToUpperCamel(d.name), sig.task, sig.wrapper,
         Body("async", NativeFnName(d), sig.args))

\* Task<T> Name(params);
InterfaceFrag(d, sig, j) ==
    Frag("iface", {j}, ToUpperCamel(d.name), sig.task, sig.wrapper, NoBody)

\* A variant that wraps every function with callbacks like one with a single
\* callback.
FunctionFragsWrapAll(d, sig, j) ==
    IF sig.callbacks = 0 THEN <<SyncWrapperFrag(d, sig, j), ImportFrag(d, sig, j)>>
    ELSE <<AsyncWrapperFrag(d, sig, j), ImportFrag(d, sig, j)>>

\* Callback-arity dispatch: what a function with n callbacks adds to the
\* implementation document.
FunctionFrags(d, sig, j) ==
    IF sig.callbacks = 0 THEN <<SyncWrapperFrag(d, sig, j), ImportFrag(d, sig, j)>>
    ELSE IF sig.callbacks = 1 THEN <<AsyncWrapperFrag(d, sig, j), ImportFrag(d, sig, j)>>
    ELSE <<ImportFrag(d, sig, j)>>

\* A variant that gives every function with callbacks an interface entry.
InterfaceFragsForAnyCallback(d, sig, j) ==
    IF sig.callbacks >= 1 THEN <<InterfaceFrag(d, sig, j)>> ELSE <<>>

\* The interface entry of a function: only with exactly one callback.
InterfaceFrags(d, sig, j) ==
    IF sig.callbacks = 1 THEN <<InterfaceFrag(d, sig, j)>> ELSE <<>>

CallbackErrors(lang, inputs, cbs) ==
    [k \in DOMAIN cbs |-> [err |-> CallbackError(lang, inputs[cbs[k]].ty)]]

\* The first error of a function's signature, "" when it can be emitted.
FunctionError(inputs, hosts, ret, cbErrs) ==
    IF \E i \in DOMAIN inputs : HasError(inputs[i].ty) THEN "UnresolvedTypeError"
    ELSE IF FirstError(cbErrs) # "" THEN FirstError(cbErrs)
    ELSE IF FirstError(hosts) # "" THEN FirstError(hosts)
    ELSE ret.err

CallbackEntries(lang, inputs, cbs, j) ==
    [k \in DOMAIN cbs |-> CallbackEntry(lang, inputs[cbs[k]].ty, j, Len(cbs) = 1)]

\* A document after the fragments were appended; untouched when there is none.
AppendAll(outs, name, frags) == IF frags = <<>> THEN outs ELSE Append1(outs, name, frags)

\* A variant that writes the native import before it reports the error.
emit_function_import_first(lang, outs, d, sig, err, entries, j) ==
    IF err # "" THEN Failed(err, lang, Append1(outs, BackendDoc, <<ImportFrag(d, sig, j)>>))
    ELSE Done([lang EXCEPT !.callbacks = RegisterCallbacks(lang.callbacks, entries)],
              AppendAll(Append1(outs, BackendDoc, FunctionFrags(d, sig, j)),
                        InterfaceDoc, InterfaceFrags(d, sig, j)))

\* The function is emitted as a whole, or fails and emits nothing.
emit_function(lang, outs, d, sig, err, entries, j) ==
    IF err # "" THEN Failed(err, lang, outs)
    ELSE Done([lang EXCEPT !.callbacks = RegisterCallbacks(lang.callbacks, entries)],
              AppendAll(Append1(outs, BackendDoc, FunctionFrags(d, sig, j)),
                        InterfaceDoc, InterfaceFrags(d, sig, j)))

transform_function(lang, outs, d, inputs, hosts, ret, cbs, j) ==
    emit_function(lang, outs, d,
                  Signature(lang, inputs, hosts, ret, cbs),
                  FunctionError(inputs, hosts, ret, CallbackErrors(lang, inputs, cbs)),
                  CallbackEntries(lang, inputs, cbs, j), j)

exported_function(lang, outs, d, inputs, j) ==
    transform_function(lang, outs, d, inputs, NativeHosts(lang, inputs),
                       HostType(lang, d.ty, "param"), Ascending(CallbackIndices(inputs)), j)

parse_fn(lang, outs, d, j) ==
    IF ~IsExportedFn(d) THEN Done(lang, outs)
    ELSE exported_function(lang, outs, d, ResolvedInputs(lang, d), j)

(***************************************************************************)
(* Document assembler: finalise_output.                                     *)
(***************************************************************************)
\* The tokens of delegate names in alphabetical order.
TokenOrder ==
    <<"10", "32", "Array", "Bool", "Byte", "Cb", "FfiResult", "Int", "Len", "List",
      "Nonce", "None", "Record", "ULong">>

TokenRank(tok) ==
    IF \E i \in DOMAIN TokenOrder : TokenOrder[i] = tok
    THEN CHOOSE i \in DOMAIN TokenOrder : TokenOrder[i] = tok
    ELSE Len(TokenOrder) + 1

RECURSIVE NameLeq(_, _)
\* a <= b in the alphabetical order of names.
NameLeq(a, b) ==
    IF a = <<>> THEN TRUE
    ELSE IF b = <<>> THEN FALSE
    ELSE IF TokenRank(Head(a)) # TokenRank(Head(b)) THEN TokenRank(Head(a)) < TokenRank(Head(b))
    ELSE NameLeq(Tail(a), Tail(b))

\* The delegate of a registry entry, and its trampoline when some function
\* takes the callback as its only one.
CallbackFrags(c) ==
    <<Frag("delegate", c.users, c.name, <<"void">>, c.params, NoBody)>>
        \o (IF c.singles = {} THEN <<>>
            ELSE <<Frag("trampoline", c.singles, <<"On">> \o c.name, <<"void">>, c.params,
                        Body("complete", <<"Utils", "CompleteTask">>, c.complete))>>)

RECURSIVE SortedCallbackFrags(_)
\* The registry's fragments, in the order of the delegate names.
SortedCallbackFrags(callbacks) ==
    IF callbacks = {} THEN <<>>
    ELSE LET c == CHOOSE x \in callbacks : \A y \in callbacks : NameLeq(x.name, y.name)
         IN  CallbackFrags(c) \o SortedCallbackFrags(callbacks \ {c})

Marker(what) == Frag(what, {}, <<>>, <<>>, <<>>, NoBody)

\* #region Callbacks ... #endregion, after the wrappers and imports.
CallbacksRegion(lang) ==
    IF lang.callbacks = {} THEN <<>>
    ELSE <<Marker("region")>> \o SortedCallbackFrags(lang.callbacks) \o <<Marker("endregion")>>

\* The registered opaque types: public struct <Name> { private IntPtr _value; }
OpaqueFrags(lang) ==
    IF lang.opaque = <<>> THEN <<>>
    ELSE <<Marker("pragma disable")>>
            \o [i \in DOMAIN lang.opaque |->
                    Frag("opaque", {}, <<lang.opaque[i]>>, <<>>,
                         <<Rendered(IntPtr, <<"_value">>)>>, NoBody)]
            \o <<Marker("pragma restore")>>

\* A variant that writes the custom constants last registered first.
CustomConstFragsLastFirst(lang) ==
    [i \in DOMAIN lang.custom |->
        Frag("const", {}, <<lang.custom[Len(lang.custom) + 1 - i].name>>,
             <<lang.custom[Len(lang.custom) + 1 - i].ty>>, <<>>,
             Body("value", <<lang.custom[Len(lang.custom) + 1 - i].value>>, <<>>))]

\* The registered custom constants, verbatim.
CustomConstFrags(lang) ==
    [i \in DOMAIN lang.custom |->
        Frag("const", {}, <<lang.custom[i].name>>, <<lang.custom[i].ty>>, <<>>,
             Body("value", <<lang.custom[i].value>>, <<>>))]

\* Everything a document holds between its preamble and its closing braces.
Contents(lang, outs, d) ==
    fetch(outs, d)
        \o (CASE d = TypesDoc -> OpaqueFrags(lang)
              [] d = ConstantsDoc -> CustomConstFrags(lang)
              [] d = BackendDoc -> CallbacksRegion(lang)
              [] OTHER -> <<>>)

Usings(d) ==
    CASE d = ConstantsDoc -> <<"System">>
      [] d = TypesDoc -> <<"System", "System.Runtime.InteropServices">>
      [] OTHER -> <<"System", "System.Runtime.InteropServices", "System.Threading.Tasks">>

\* The using list, the namespace block and the class that holds the fragments.
Preamble(d) ==
    Frag("preamble", {}, <<d>>, Usings(d), <<>>,
         Body("namespace", <<"Backend">>,
              CASE d = BackendDoc -> <<<<"partial", "class", "Backend", "IBackend">>, <<"DLL_NAME">>>>
                [] d = InterfaceDoc -> <<<<"partial", "interface", "IBackend">>>>
                [] d = ConstantsDoc -> <<<<"static", "class", "Constants">>>>
                [] OTHER -> <<>>))

Footer(d) == Frag("footer", {}, <<d>>, <<>>, <<>>, NoBody)

\* A document with nothing in it is the empty string; any other is wrapped.
FinaliseDoc(lang, outs, d) ==
    LET c == Contents(lang, outs, d)
    IN  IF c = <<>> THEN <<>> ELSE <<Preamble(d)>> \o c \o <<Footer(d)>>

finalise_output(lang, outs) == [d \in Docs |-> FinaliseDoc(lang, outs, d)]

(***************************************************************************)
(* The backend as constructed, and its configuration.                       *)
(***************************************************************************)
\* LangCSharp::new()
NewLang == [aliases |-> NoAliases, opaque |-> <<>>, native |-> {}, callbacks |-> {},
            custom |-> <<>>]

add_opaque_type(lang, name) == [lang EXCEPT !.opaque = Append(lang.opaque, name)]

add_const(lang, ty, name, value) ==
    [lang EXCEPT !.custom = Append(lang.custom, [ty |-> ty, name |-> name, value |-> value])]

\* A backend constructed anew and configured like l: LangCSharp::new() and
\* the same add_opaque_type and add_const calls.
Configured(l) == [NewLang EXCEPT !.opaque = l.opaque, !.custom = l.custom]

(***************************************************************************)
(* The declarations the inputs are made of: those of the backend's tests,  *)
(* and four more (a function with neither marker, a function with a        *)
(* parameter no rule maps, a callback whose pointer and size are named      *)
(* without the convention, an item of another kind).                        *)
(***************************************************************************)
FfiResultPtr == TPtr("const", TNamed("FfiResult"))

StructFoo == Struct("Foo", {}, <<Param(<<"bar">>, I32)>>)

EnumMeta == Enum("Meta", {}, <<"Foo", "Bar", "Baz">>)

\* Widget and Gadget are declared nowhere.
StructRecord ==
    Struct("Record", {"repr_c"},
           <<Param(<<"id">>, U64),
             Param(<<"enabled">>, Bool),
             Param(<<"name">>, CStr),
             Param(<<"random", "numbers">>, TArr(I32, "10")),
             Param(<<"widget">>, TNamed("Widget")),
             Param(<<"gadgets">>, TArr(TNamed("Gadget"), "100"))>>)

StructEntry ==
    Struct("Entry", {"repr_c"},
           <<Param(<<"key", "ptr">>, TPtr("const", U8)),
             Param(<<"key", "len">>, USize),
             Param(<<"records", "ptr">>, TPtr("const", TNamed("Record"))),
             Param(<<"records", "len">>, USize)>>)

FnEntry == Fn(<<"fun">>, Exported, <<Param(<<"entry">>, TNamed("Entry"))>>, TUnit)

TypeId == TypeAlias("Id", U64)

\* Double indirection.
TypeUserId == TypeAlias("UserId", TNamed("Id"))

StructMessage ==
    Struct("Message", {"repr_c"},
           <<Param(<<"id">>, TNamed("Id")),
             Param(<<"sender", "id">>, TNamed("UserId")),
             Param(<<"receiver", "ids">>, TArr(TNamed("Id"), "10"))>>)

FnAlias ==
    Fn(<<"fun">>, Exported,
       <<Param(<<"id">>, TNamed("Id")),
         Param(<<"user", "data">>, VoidPtr),
         Param(<<"cb">>, TCallback(<<VoidPtr, FfiResultPtr, TNamed("Id")>>, <<>>))>>,
       TUnit)

EnumMode == Enum("Mode", {"repr_c"}, <<"ReadOnly", "WriteOnly", "ReadAndWrite">>)

FnExternOnly == Fn(<<"fun1">>, {"extern_c"}, <<>>, TUnit)

FnNoMangleOnly == Fn(<<"fun2">>, {"no_mangle"}, <<>>, TUnit)

FnPlain == Fn(<<"fun3">>, {}, <<>>, TUnit)

FnOneCallback ==
    Fn(<<"fun1">>, Exported,
       <<Param(<<"num">>, I32),
         Param(<<"name">>, CStr),
         Param(<<"user", "data">>, VoidPtr),
         Param(<<"cb">>, TCallback(<<VoidPtr, FfiResultPtr>>,
                                   <<<<"user", "data">>, <<"result">>>>))>>,
       TUnit)

FnMultipleCallbacks ==
    Fn(<<"fun">>, Exported,
       <<Param(<<"input">>, I32),
         Param(<<"user", "data">>, VoidPtr),
         Param(<<"cb0">>, TCallback(<<VoidPtr>>, <<<<"user", "data">>>>)),
         Param(<<"cb1">>, TCallback(<<VoidPtr, FfiResultPtr, I32>>,
                                    <<<<"user", "data">>, <<"result">>, <<"output">>>>))>>,
       TUnit)

FnArray0 ==
    Fn(<<"fun0">>, Exported,
       <<Param(<<"data", "ptr">>, TPtr("const", U8)), Param(<<"data", "len">>, USize)>>,
       TUnit)

\* Params before the array.
FnArray1 ==
    Fn(<<"fun1">>, Exported,
       <<Param(<<"id">>, U64),
         Param(<<"data", "ptr">>, TPtr("const", U8)),
         Param(<<"data", "len">>, USize)>>,
       TUnit)

\* This one does not follow the naming convention.
FnNoArray ==
    Fn(<<"fun2">>, Exported,
       <<Param(<<"result">>, FfiResultPtr), Param(<<"len">>, USize)>>,
       TUnit)

\* A callback taking a fixed-size array: literal size.
FnCallbackArray32 ==
    Fn(<<"fun2">>, Exported,
       <<Param(<<"user", "data">>, VoidPtr),
         Param(<<"cb">>, TCallback(<<VoidPtr, FfiResultPtr, TArr(U8, "32")>>,
                                   <<<<"user", "data">>, <<"result">>, <<"key">>>>))>>,
       TUnit)

\* Named constant.
FnCallbackArrayNonce ==
    Fn(<<"fun3">>, Exported,
       <<Param(<<"user", "data">>, VoidPtr),
         Param(<<"cb">>, TCallback(<<VoidPtr, FfiResultPtr,
                                     TArrConst(U8, "NONCE_LEN", <<"nonce", "len">>)>>,
                                   <<<<"user", "data">>, <<"result">>, <<"nonce">>>>))>>,
       TUnit)

\* A callback taking a dynamic array.
FnCallbackList ==
    Fn(<<"fun0">>, Exported,
       <<Param(<<"user", "data">>, VoidPtr),
         Param(<<"cb">>, TCallback(<<VoidPtr, FfiResultPtr, TPtr("const", U8), USize>>,
                                   <<<<"user", "data">>, <<"result">>,
                                     <<"data", "ptr">>, <<"data", "len">>>>))>>,
       TUnit)

\* The same parameter types, named without the convention.
FnCallbackNoList ==
    Fn(<<"fun1">>, Exported,
       <<Param(<<"user", "data">>, VoidPtr),
         Param(<<"cb">>, TCallback(<<VoidPtr, FfiResultPtr, TPtr("const", U8), USize>>,
                                   <<<<"user", "data">>, <<"result">>,
                                     <<"data">>, <<"size">>>>))>>,
       TUnit)

FnReturn == Fn(<<"fun">>, Exported, <<Param(<<"arg">>, I32)>>, Bool)

ConstNumber == Const("NUMBER", I32, "123")

ConstArraySize == Const("ARRAY_SIZE", USize, "20")

\* A pointer to a pointer to a pointer: no mapping rule.
FnUnsupported ==
    Fn(<<"fun3">>, Exported,
       <<Param(<<"o", "app">>, TPtr("mut", TPtr("mut", TPtr("mut", TNamed("App")))))>>,
       TUnit)

Pool ==
    {StructFoo, EnumMeta, StructRecord, StructEntry, FnEntry, TypeId, TypeUserId, StructMessage, FnAlias,
     EnumMode, FnExternOnly, FnNoMangleOnly, FnPlain, FnOneCallback, FnMultipleCallbacks,
     FnArray0, FnArray1, FnNoArray, FnReturn, ConstNumber, FnUnsupported, Other}

\* The declarations of the tests on callbacks and their delegates.
DelegatePool ==
    {StructRecord, FnOneCallback, FnMultipleCallbacks, FnCallbackArray32,
     FnCallbackArrayNonce, FnCallbackList, FnCallbackNoList}

OpaqueNames == {"Handle"}

CustomConstants == {[ty |-> "byte", name |-> "CUSTOM", value |-> "45"]}

RECURSIVE NamesIn(_)
\* The type names a type mentions.
NamesIn(t) ==
    IF t.k = "named" THEN {t.n}
    ELSE IF t.k \in {"ptr", "arr", "cb"} THEN UNION {NamesIn(t.args[i]) : i \in DOMAIN t.args}
    ELSE {}

NamesUsed(d) == NamesIn(d.ty) \cup UNION {NamesIn(d.params[i].ty) : i \in DOMAIN d.params}

Declares(d) == IF d.kind \in {"type", "struct", "enum"} THEN {d.name[1]} ELSE {}

\* A type the input declares is declared before the declarations that use
\* it, as in every test of the backend.
DeclaredBeforeUse(src) ==
    \A j \in DOMAIN src : \A k \in DOMAIN src :
        k >= j => Declares(src[k]) \cap NamesUsed(src[j]) = {}

Inputs ==
    {src \in UNION {[1..n -> Pool] : n \in 0..MaxDecls} : DeclaredBeforeUse(src)}

DelegateInputs ==
    {src \in UNION {[1..n -> DelegatePool] : n \in 0..MaxDecls} : DeclaredBeforeUse(src)}

(***************************************************************************)
(* The driver: Bindgen::compile on Input::Code.                             *)
(***************************************************************************)
VARIABLES
    input,      \* the declarations of the source, in source order
    lang,       \* the backend
    outputs,    \* the Outputs map: document name -> text
    phase,      \* "new", "parsing", "done" (Ok) or "failed" (Err)
    pc,         \* the position of the next item of the source
    finalised,  \* whether compile ran finalise_output
    errors,     \* the errors compile returned
    previous,   \* the result of the compilation before this one, if any
    file,       \* compile_from_path: the imported modules, those parsed, and
                \* the declarations handed to the backend so far
    build,      \* run_build: what was printed, and the files of the output
                \* directory
    source      \* source_code: the file name, and the module
                \* convert_lib_path_to_module made of it

vars == <<input, lang, outputs, phase, pc, finalised, errors, previous, file, build, source>>

\* Input::Code: nothing of compile_from_path.
NoFile == [path |-> FALSE, imported |-> {}, parsed |-> <<>>, fed |-> <<>>]

\* The file name of the source is one convert_lib_path_to_module returns
\* on, and is not looked at.
NoSource == [named |-> FALSE, file_name |-> <<>>, module |-> <<>>]

\* compile called on its own: nothing of run_build.
NoBuild == [on |-> FALSE, printed |-> <<>>, before |-> NoOutputs, dir |-> NoOutputs]

Init ==
    /\ input \in Inputs
    /\ lang = NewLang
    /\ outputs = NoOutputs
    /\ phase = "new"
    /\ pc = 1
    /\ finalised = FALSE
    /\ errors = <<>>
    /\ previous = <<>>
    /\ file = NoFile
    /\ build = NoBuild
    /\ source = NoSource

\* lang.add_opaque_type(name), before compiling.
AddOpaqueType ==
    /\ phase = "new"
    /\ \E name \in OpaqueNames :
        /\ ~IsOpaque(lang, name)
        /\ lang' = add_opaque_type(lang, name)
    /\ UNCHANGED <<input, outputs, phase, pc, finalised, errors, previous, file, build, source>>

\* lang.add_const(ty, name, value), before compiling.
AddConst ==
    /\ phase = "new"
    /\ Len(lang.custom) < MaxCustom
    /\ \E c \in CustomConstants : lang' = add_const(lang, c.ty, c.name, c.value)
    /\ UNCHANGED <<input, outputs, phase, pc, finalised, errors, previous, file, build, source>>

\* compile is called: compile_from_source parses the source into its items.
Compile ==
    /\ phase = "new"
    /\ phase' = "parsing"
    /\ UNCHANGED <<input, lang, outputs, pc, finalised, errors, previous, file, build, source>>

\* A variant of the match without the arm for type aliases.
compile_item_without_ty(l, outs, item, j) ==
    CASE item.kind = "const" -> parse_const(l, outs, item, j)
      [] item.kind = "enum" -> parse_enum(l, outs, item, j)
      [] item.kind = "fn" -> parse_fn(l, outs, item, j)
      [] item.kind = "struct" -> parse_struct(l, outs, item, j)
      [] OTHER -> Done(l, outs)

\* compile_from_source's match on one item: the emitter of its kind.
compile_item(l, outs, item, j) ==
    CASE item.kind = "const" -> parse_const(l, outs, item, j)
      [] item.kind = "type" -> parse_ty(l, outs, item, j)
      [] item.kind = "enum" -> parse_enum(l, outs, item, j)
      [] item.kind = "fn" -> parse_fn(l, outs, item, j)
      [] item.kind = "struct" -> parse_struct(l, outs, item, j)
      [] OTHER -> Done(l, outs)

\* A variant that takes the items from the last to the first.
next_item_backwards(src, i) == IF i <= Len(src) THEN Len(src) + 1 - i ELSE 0

\* The position of the item the loop takes next, 0 when none is left.
next_item(src, i) == IF i <= Len(src) THEN i ELSE 0

RECURSIVE compile_next(_, _, _)
RECURSIVE compile_from(_, _, _, _)
\* The loop of compile_from_source from item i on, as a function of the
\* source: the backend and the documents after the last item, or the first
\* error.
compile_from(src, l, outs, i) ==
    IF next_item(src, i) = 0 THEN Done(l, outs)
    ELSE compile_next(src, compile_item(l, outs, src[i], i), i)

\* The `?` on the emitter's result r for item i: stop at an error.
compile_next(src, r, i) ==
    IF r.err # "" THEN r ELSE compile_from(src, r.lang, r.outputs, i + 1)

\* One turn of the loop over the items: an error of the emitter ends the
\* compilation (the `?`), with that error as the list.
Step ==
    LET j == next_item(input, pc)
        r == compile_item(lang, outputs, input[j], j)
    IN  /\ lang' = r.lang
        /\ outputs' = r.outputs
        /\ IF r.err # ""
           THEN /\ phase' = "failed"
                /\ errors' = <<[decl |-> j, err |-> r.err]>>
                /\ pc' = pc
           ELSE /\ pc' = pc + 1
                /\ UNCHANGED <<phase, errors>>
        /\ UNCHANGED <<input, finalised, previous, file, build, source>>

\* The next item of the source is of this kind.
AtItem(kind) ==
    /\ phase = "parsing"
    /\ next_item(input, pc) # 0
    /\ input[next_item(input, pc)].kind = kind

ItemConst ==
    /\ AtItem("const")
    /\ Step

ItemType ==
    /\ AtItem("type")
    /\ Step

ItemEnum ==
    /\ AtItem("enum")
    /\ Step

ItemFn ==
    /\ AtItem("fn")
    /\ Step

ItemStruct ==
    /\ AtItem("struct")
    /\ Step

\* Any other item is passed over.
ItemOther ==
    /\ AtItem("other")
    /\ Step

\* A variant of the end of compile that finalises whatever the flag.
compile_end_always(l, outs, finalise) == finalise_output(l, outs)

\* A variant of the end of compile that never finalises.
compile_end_unfinalised(l, outs, finalise) == outs

\* The end of compile: finalise_output when the finalise flag is set.
compile_end(l, outs, finalise) == IF finalise THEN finalise_output(l, outs) ELSE outs

\* The loop is over: compile finalises (or not) and returns Ok.  A second
\* compilation is called with the finalise flag of the first, and run_build
\* calls with the flag set.
Finish ==
    /\ phase = "parsing"
    /\ next_item(input, pc) = 0
    /\ \E finalise \in BOOLEAN :
        /\ previous # <<>> => finalise = previous[1].finalise
        /\ build.on => finalise
        /\ outputs' = compile_end(lang, outputs, finalise)
        /\ finalised' = finalise
    /\ phase' = "done"
    /\ UNCHANGED <<input, lang, pc, errors, previous, file, build, source>>

Next ==
    \/ AddOpaqueType
    \/ AddConst
    \/ Compile
    \/ ItemConst
    \/ ItemType
    \/ ItemEnum
    \/ ItemFn
    \/ ItemStruct
    \/ ItemOther
    \/ Finish

Spec == Init /\ [][Next]_vars

\* A variant of the second compilation that is handed the documents of the
\* first instead of an empty map.
again_on_same_outputs(l, outs) == [lang |-> Configured(l), outputs |-> outs]

\* What a second compilation starts from: a backend constructed anew with
\* the same configuration, and Outputs::default().
again(l, outs) == [lang |-> Configured(l), outputs |-> NoOutputs]

\* The same source is compiled a second time, after a first compilation
\* that returned Ok, with the same configuration.
Again ==
    /\ phase = "done"
    /\ previous = <<>>
    /\ previous' = <<[outputs |-> outputs, finalise |-> finalised]>>
    /\ lang' = again(lang, outputs).lang
    /\ outputs' = again(lang, outputs).outputs
    /\ phase' = "parsing"
    /\ pc' = 1
    /\ finalised' = FALSE
    /\ UNCHANGED <<input, errors, file, build, source>>

NextTwice ==
    \/ Next
    \/ Again

SpecTwice == Init /\ [][NextTwice]_vars

(***************************************************************************)
(* Compilations of functions taking callbacks.                             *)
(***************************************************************************)
InitDelegates ==
    /\ input \in DelegateInputs
    /\ lang = NewLang
    /\ outputs = NoOutputs
    /\ phase = "new"
    /\ pc = 1
    /\ finalised = FALSE
    /\ errors = <<>>
    /\ previous = <<>>
    /\ file = NoFile
    /\ build = NoBuild
    /\ source = NoSource

NextDelegates ==
    \/ Compile
    \/ ItemFn
    \/ ItemStruct
    \/ Finish

SpecDelegates == InitDelegates /\ [][NextDelegates]_vars

(***************************************************************************)
(* Compilations of constants, with up to MaxRegistered custom constants.   *)
(***************************************************************************)
ConstantInputs ==
    UNION {[1..n -> {ConstNumber, ConstArraySize, Other}] : n \in 0..MaxDecls}

\* A second custom constant.
MoreConstants == CustomConstants \cup {[ty |-> "int", name |-> "OTHER", value |-> "46"]}

InitConstants ==
    /\ input \in ConstantInputs
    /\ lang = NewLang
    /\ outputs = NoOutputs
    /\ phase = "new"
    /\ pc = 1
    /\ finalised = FALSE
    /\ errors = <<>>
    /\ previous = <<>>
    /\ file = NoFile
    /\ build = NoBuild
    /\ source = NoSource

\* lang.add_const(ty, name, value), before compiling, for several constants.
AddConstants ==
    /\ phase = "new"
    /\ Len(lang.custom) < MaxRegistered
    /\ \E c \in MoreConstants : lang' = add_const(lang, c.ty, c.name, c.value)
    /\ UNCHANGED <<input, outputs, phase, pc, finalised, errors, previous, file, build, source>>

NextConstants ==
    \/ AddConstants
    \/ Compile
    \/ ItemConst
    \/ ItemOther
    \/ Finish

SpecConstants == InitConstants /\ [][NextConstants]_vars

(***************************************************************************)
(* The driver on Input::File: Bindgen::compile_from_path.                   *)
(***************************************************************************)
\* A `use` item; m is the module parse::imported_mods finds in it, "" when
\* it finds none.
Use(m) == Decl("use", <<m>>, {}, <<>>, TUnit, "")

\* The module files next to the root file.  There is no file for "c".
ModuleFiles == [m \in {"a", "b"} |-> IF m = "a" THEN <<FnReturn, EnumMode>> ELSE <<ConstArraySize>>]

\* The order of module paths in the BTreeSet.
ModuleOrder == <<"a", "b", "c">>

ModuleRank(m) == CHOOSE i \in DOMAIN ModuleOrder : ModuleOrder[i] = m

RootItems == {Use("a"), Use("b"), Use("c"), Use(""), ConstNumber, EnumMode, FnReturn}

RootFiles == UNION {[1..n -> RootItems] : n \in 0..MaxRoot}

InitPath ==
    /\ input \in RootFiles
    /\ lang = NewLang
    /\ outputs = NoOutputs
    /\ phase = "new"
    /\ pc = 1
    /\ finalised = FALSE
    /\ errors = <<>>
    /\ previous = <<>>
    /\ file = [NoFile EXCEPT !.path = TRUE]
    /\ build = NoBuild
    /\ source = NoSource

\* A declaration handed to an emitter: the file it stands in ("" for the
\* root file), its position there, its kind.
Fed(m, j, d) == [module |-> m, decl |-> j, kind |-> d.kind]

\* The match of the first loop on one item of the root file: constants go
\* to parse_const, every other item is passed over (a `use` item is looked
\* at for its module, see RootItem).
root_item(l, outs, item, j) ==
    IF item.kind = "const" THEN parse_const(l, outs, item, j) ELSE Done(l, outs)

\* What the first loop hands to the backend for one item.
root_fed(item, j) == IF item.kind = "const" THEN <<Fed("", j, item)>> ELSE <<>>

\* One turn of the first loop of compile_from_path.
RootItem ==
    /\ file.path
    /\ phase = "parsing"
    /\ pc <= Len(input)
    /\ LET item == input[pc]
           r == root_item(lang, outputs, item, pc)
       IN  /\ lang' = r.lang
           /\ outputs' = r.outputs
           /\ IF r.err # ""
              THEN /\ phase' = "failed"
                   /\ errors' = <<[decl |-> pc, err |-> r.err]>>
                   /\ pc' = pc
                   /\ file' = file
              ELSE /\ pc' = pc + 1
                   /\ file' = [file EXCEPT
                                 !.imported = IF item.kind = "use" /\ item.name[1] # ""
                                              THEN @ \cup {item.name[1]} ELSE @,
                                 !.fed = @ \o root_fed(item, pc)]
                   /\ UNCHANGED <<phase, errors>>
    /\ UNCHANGED <<input, finalised, previous, build, source>>

\* The imported modules not parsed yet.
Unparsed == {m \in file.imported : \A i \in DOMAIN file.parsed : file.parsed[i] # m}

\* A variant of the second loop that takes the greatest module first.
LastModule == CHOOSE m \in Unparsed : \A n \in Unparsed : ModuleRank(m) >= ModuleRank(n)

\* The module the second loop takes next: the least in the order of the set.
NextModule == CHOOSE m \in Unparsed : \A n \in Unparsed : ModuleRank(m) <= ModuleRank(n)

\* parse::parse_file on a module: its items in order, each to the emitter of
\* its kind.
parse_file(l, outs, items) == compile_from(items, l, outs, 1)

\* The declarations of a module parse_file hands to the emitters.
module_fed(m, items) ==
    [j \in DOMAIN items |-> Fed(m, j, items[j])]

\* One turn of the second loop: the module file is opened (a missing file
\* panics in unwrap!) and parsed.
ImportedModule ==
    /\ file.path
    /\ phase = "parsing"
    /\ pc > Len(input)
    /\ Unparsed # {}
    /\ LET m == NextModule
       IN  IF m \notin DOMAIN ModuleFiles
           THEN /\ phase' = "panicked"
                /\ UNCHANGED <<lang, outputs, errors, file, build, source>>
           ELSE LET r == parse_file(lang, outputs, ModuleFiles[m])
                IN  /\ lang' = r.lang
                    /\ outputs' = r.outputs
                    /\ file' = [file EXCEPT !.parsed = Append(@, m),
                                            !.fed = @ \o module_fed(m, ModuleFiles[m])]
                    /\ IF r.err # ""
                       THEN /\ phase' = "failed"
                            /\ errors' = <<[decl |-> 0, err |-> r.err]>>
                       ELSE UNCHANGED <<phase, errors>>
    /\ UNCHANGED <<input, pc, finalised, previous, build, source>>

\* Both loops are over: compile finalises (or not) and returns Ok.
FinishFile ==
    /\ file.path
    /\ phase = "parsing"
    /\ pc > Len(input)
    /\ Unparsed = {}
    /\ \E finalise \in BOOLEAN :
        /\ outputs' = compile_end(lang, outputs, finalise)
        /\ finalised' = finalise
    /\ phase' = "done"
    /\ UNCHANGED <<input, lang, pc, errors, previous, file, build, source>>

NextPath ==
    \/ Compile
    \/ RootItem
    \/ ImportedModule
    \/ FinishFile

SpecPath == InitPath /\ [][NextPath]_vars

(***************************************************************************)
(* Bindgen::source_code and the module name compile_from_source makes of   *)
(* the file name.                                                          *)
(***************************************************************************)
\* The components of a file name; ".." is Component::ParentDir, the others
\* are Component::Normal.
PathComponents == {"ffi_utils", "src", "lib.rs", ".."}

Normal(c) == c # ".."

FileNames == UNION {[1..n -> PathComponents] : n \in 0..MaxPath}

SourceInputs == UNION {[1..n -> {ConstNumber, Other}] : n \in 0..MaxDecls}

\* Bindgen::source_code(file_name, code)
InitSource ==
    /\ input \in SourceInputs
    /\ lang = NewLang
    /\ outputs = NoOutputs
    /\ phase = "new"
    /\ pc = 1
    /\ finalised = FALSE
    /\ errors = <<>>
    /\ previous = <<>>
    /\ file = NoFile
    /\ build = NoBuild
    /\ \E name \in FileNames :
        source = [named |-> TRUE, file_name |-> name, module |-> <<>>]

\* usize subtraction without the overflow check: modulo 2^UsizeBits.
wrapping_sub(a, b) == (a - b + 2 ^ UsizeBits) % (2 ^ UsizeBits)

Returns(res) == [panic |-> FALSE, res |-> res]
Panics == [panic |-> TRUE, res |-> <<>>]

\* convert_lib_path_to_module: the normal components of the path, then
\* `res[(res.len() - 2)..]` compared with ["src", "lib.rs"].  With overflow
\* checks (a debug profile) the subtraction panics when res.len() < 2;
\* without them it wraps and the slice's start is out of range, which
\* panics as well.
convert_lib_path_to_module(path, profile) ==
    LET res == SelectSeq(path, Normal)
        n == Len(res)
    IN  IF profile = "debug" /\ n < 2 THEN Panics
        ELSE LET start == wrapping_sub(n, 2)
             IN  IF start > n THEN Panics
                 ELSE IF SubSeq(res, start + 1, n) = <<"src", "lib.rs">>
                      THEN Returns(SubSeq(res, 1, start))
                      ELSE Returns(res)

\* compile on Input::Code: compile_from_source converts the file name, then
\* parses the source into its items.
CompileSource ==
    /\ source.named
    /\ phase = "new"
    /\ \E profile \in {"debug", "release"} :
        LET r == convert_lib_path_to_module(source.file_name, profile)
        IN  /\ source' = [source EXCEPT !.module = r.res]
            /\ phase' = IF r.panic THEN "panicked" ELSE "parsing"
    /\ UNCHANGED <<input, lang, outputs, pc, finalised, errors, previous, file, build>>

NextSource ==
    \/ CompileSource
    \/ ItemConst
    \/ ItemOther
    \/ Finish

SpecSource == InitSource /\ [][NextSource]_vars

(***************************************************************************)
(* run_build: compile_or_panic with the finalise flag set on a new map,    *)
(* then write_outputs_or_panic into the output directory.                  *)
(***************************************************************************)
BuildPool == {FnReturn, EnumMode, ConstNumber, FnUnsupported, Other}

BuildInputs == UNION {[1..n -> BuildPool] : n \in 0..MaxDecls}

\* The files an earlier build of another source left in the directory.
OlderBuild ==
    LET r == compile_from(<<FnReturn>>, NewLang, NoOutputs, 1)
    IN  compile_end(r.lang, r.outputs, TRUE)

\* run_build is called: let mut outputs = HashMap::new().
InitBuild ==
    /\ input \in BuildInputs
    /\ lang = NewLang
    /\ outputs = NoOutputs
    /\ phase = "new"
    /\ pc = 1
    /\ finalised = FALSE
    /\ errors = <<>>
    /\ previous = <<>>
    /\ file = NoFile
    /\ \E dir \in {NoOutputs, OlderBuild} :
        build = [on |-> TRUE, printed |-> <<>>, before |-> dir, dir |-> dir]
    /\ source = NoSource

\* A variant that prints the errors and returns.
compile_or_print(failed, errs, printed) == [printed |-> printed \o errs, panic |-> FALSE]

\* compile_or_panic on the result of compile: on Err(errors) every error is
\* printed and the call panics.
compile_or_panic(failed, errs, printed) ==
    IF failed THEN [printed |-> printed \o errs, panic |-> TRUE]
    ELSE [printed |-> printed, panic |-> FALSE]

CompileOrPanic ==
    /\ build.on
    /\ phase \in {"done", "failed"}
    /\ LET r == compile_or_panic(phase = "failed", errors, build.printed)
       IN  /\ build' = [build EXCEPT !.printed = r.printed]
           /\ phase' = IF r.panic THEN "panicked" ELSE "compiled"
    /\ UNCHANGED <<input, lang, outputs, pc, finalised, errors, previous, file, source>>

\* The error of a file that could not be created or written.
IoError == [decl |-> 0, err |-> "io"]

\* write_outputs: each document of the map is written to its file; the
\* files in `written` are those reached before an IoError, if any.
write_outputs(dir, outs, written) ==
    [d \in DOMAIN dir \cup written |-> IF d \in written THEN outs[d] ELSE dir[d]]

\* write_outputs_or_panic: an IoError is printed and the call panics.
WriteOutputs ==
    /\ build.on
    /\ phase = "compiled"
    /\ \E written \in SUBSET DOMAIN outputs :
        IF written = DOMAIN outputs
        THEN /\ build' = [build EXCEPT !.dir = write_outputs(build.dir, outputs, written)]
             /\ phase' = "written"
        ELSE /\ build' = [build EXCEPT !.dir = write_outputs(build.dir, outputs, written),
                                       !.printed = Append(build.printed, IoError)]
             /\ phase' = "panicked"
    /\ UNCHANGED <<input, lang, outputs, pc, finalised, errors, previous, file, source>>

NextBuild ==
    \/ Compile
    \/ ItemConst
    \/ ItemEnum
    \/ ItemFn
    \/ ItemOther
    \/ Finish
    \/ CompileOrPanic
    \/ WriteOutputs

SpecBuild == InitBuild /\ [][NextBuild]_vars

(***************************************************************************)
(* Properties.                                                              *)
(***************************************************************************)
\* The pass is over and the documents were finalised.
Finalised == phase = "done" /\ finalised

\* The positions in a document of the fragments emitted for declaration j.
FragsOf(doc, j) == {i \in DOMAIN doc : j \in doc[i].src}

\* A function declaration without #[no_mangle], without extern "C", or
\* without both.
LacksMarker(d) == d.kind = "fn" /\ ~({"no_mangle", "extern_c"} \subseteq d.attrs)

OnlyUnexported(src) == src # <<>> /\ \A j \in DOMAIN src : LacksMarker(src[j])

AllEmpty == \A d \in Docs : fetch(outputs, d) = <<>>

\* Processing a function that lacks a marker changes no document and
\* nothing of the backend.
C1_Frame ==
    (AtItem("fn") /\ LacksMarker(input[pc])) => (outputs' = outputs /\ lang' = lang)

\* After only such functions the implementation and interface documents
\* are empty, every document is what the configuration alone makes it, and
\* with nothing configured every document is empty.
C1_Final ==
    (Finalised /\ OnlyUnexported(input)) =>
        /\ fetch(outputs, BackendDoc) = <<>>
        /\ fetch(outputs, InterfaceDoc) = <<>>
        /\ outputs = finalise_output(lang, NoOutputs)
        /\ (lang.opaque = <<>> /\ lang.custom = <<>> => AllEmpty)

LacksReprC(d) == d.kind \in {"struct", "enum"} /\ "repr_c" \notin d.attrs

NoReprC(src) == \A j \in DOMAIN src : "repr_c" \notin src[j].attrs

\* Processing a struct or enum that lacks the marker changes no document
\* and nothing of the backend.
C2_Frame ==
    ((AtItem("struct") \/ AtItem("enum")) /\ LacksReprC(input[pc])) =>
        (outputs' = outputs /\ lang' = lang)

C2_Final ==
    (Finalised /\ NoReprC(input) /\ lang.opaque = <<>>) => fetch(outputs, TypesDoc) = <<>>

\* C2: processing a struct or enum that lacks #[repr(C)] appends nothing to
\* Types.cs; when no declaration of the input carries the marker and no
\* opaque type is registered, Types.cs finalises to the empty string.
C2_NonReprCTypesAddNothing == [][C2_Frame]_vars /\ []C2_Final

\* C2 witness: a finalised pass over a struct and an enum without the
\* marker and an exported function: Backend.cs is written, Types.cs is not.
C2_Witness ==
    /\ Finalised
    /\ NoReprC(input)
    /\ \E i, k \in DOMAIN input : input[i] = StructFoo /\ input[k] = EnumMeta
    /\ lang.opaque = <<>>
    /\ fetch(outputs, BackendDoc) # <<>>
    /\ fetch(outputs, TypesDoc) = <<>>

\* The positions in a document of the fragments of one kind emitted for
\* declaration j.
Emitted(doc, j, what) == {i \in FragsOf(doc, j) : doc[i].frag = what}

\* The callback-typed parameters of a declaration.
Callbacks(d) == {i \in DOMAIN d.params : d.params[i].ty.k = "cb"}

IsExported(d) == d.kind = "fn" /\ {"no_mangle", "extern_c"} \subseteq d.attrs

\* What Backend.cs holds for the exported function at position j.
C3_Dispatch(doc, j) ==
    LET d == input[j]
        n == Cardinality(Callbacks(d))
        wrappers == Emitted(doc, j, "wrapper")
        imports == Emitted(doc, j, "import")
        delegates == Emitted(doc, j, "delegate")
        trampolines == Emitted(doc, j, "trampoline")
    IN  /\ Cardinality(imports) = 1
        /\ n = 0 =>
            /\ Cardinality(wrappers) = 1
            /\ \A w \in wrappers : \A m \in imports :
                /\ doc[w].body.kind = "sync"
                /\ doc[w].body.call = doc[m].name
                /\ doc[w].ret = doc[m].ret
            /\ delegates = {}
            /\ trampolines = {}
        /\ n = 1 =>
            /\ Cardinality(wrappers) = 1
            /\ \A w \in wrappers : \A m \in imports :
                /\ doc[w].body.kind = "async"
                /\ doc[w].body.call = doc[m].name
                /\ Head(doc[w].ret) = "Task"
            /\ Cardinality(delegates) = 1
            /\ Cardinality(trampolines) = 1
            /\ \A g \in delegates : \A h \in trampolines :
                /\ doc[h].name = <<"On">> \o doc[g].name
                /\ doc[h].params = doc[g].params
        /\ n >= 2 =>
            /\ wrappers = {}
            /\ trampolines = {}
            /\ \A i \in Callbacks(d) :
                \E g \in delegates : doc[g].name = DelegateName(d.params[i].ty)
            /\ \A g \in delegates :
                \E i \in Callbacks(d) : doc[g].name = DelegateName(d.params[i].ty)

\* C3: for every exported function the finalised Backend.cs holds the
\* native import and, by the number of callback parameters: with none, a
\* synchronous wrapper that calls the import and returns its type, no
\* delegate, no trampoline; with one, an asynchronous wrapper returning a
\* Task, a delegate and a trampoline; with two or more, a delegate per
\* callback, no wrapper and no trampoline.
C3_CallbackArityDispatch ==
    Finalised =>
        \A j \in DOMAIN input :
            IsExported(input[j]) => C3_Dispatch(fetch(outputs, BackendDoc), j)

\* C3 witness: a finalised pass over a function without callbacks, one with
\* one callback and one with two.
C3_Witness ==
    /\ Finalised
    /\ \E i, j, k \in DOMAIN input :
        /\ input[i] = FnReturn
        /\ input[j] = FnOneCallback
        /\ input[k] = FnMultipleCallbacks
        /\ Emitted(fetch(outputs, BackendDoc), i, "wrapper") # {}
        /\ Emitted(fetch(outputs, BackendDoc), j, "trampoline") # {}
        /\ Cardinality(Emitted(fetch(outputs, BackendDoc), k, "delegate")) = 2

\* The declaration at position j went through its emitter without error.
Processed(j) == phase # "new" /\ j < pc

\* The interface entry of the function at position j, and the wrapper it
\* repeats.
C4_Entry(iface, backend, j) ==
    LET entries == Emitted(iface, j, "iface")
        wrappers == Emitted(backend, j, "wrapper")
    IN  /\ entries # {} <=>
            (IsExported(input[j]) /\ Cardinality(Callbacks(input[j])) = 1)
        /\ Cardinality(entries) <= 1
        /\ \A e \in entries :
            /\ Cardinality(wrappers) = 1
            /\ \A w \in wrappers :
                /\ backend[w].body.kind = "async"
                /\ iface[e].ret = backend[w].ret
                /\ iface[e].name = backend[w].name
                /\ iface[e].params = backend[w].params

\* C4: after a compilation the finalised IBackend.cs holds an entry for a
\* function if and only if the function is exported and has exactly one
\* callback; the entry has the return type, the name and the parameters of
\* the function's asynchronous wrapper in Backend.cs.
C4_InterfaceEntries ==
    Finalised =>
        \A j \in DOMAIN input :
            C4_Entry(fetch(outputs, InterfaceDoc), fetch(outputs, BackendDoc), j)

\* C4 witness: a finalised pass over functions with one, two and no
\* callbacks; only the first has an entry, with parameters.
C4_Witness ==
    /\ Finalised
    /\ \E i, j, k \in DOMAIN input :
        /\ input[i] = FnOneCallback
        /\ input[j] = FnMultipleCallbacks
        /\ input[k] = FnReturn
        /\ \E e \in Emitted(fetch(outputs, InterfaceDoc), i, "iface") :
            Len(fetch(outputs, InterfaceDoc)[e].params) = 2
        /\ Emitted(fetch(outputs, InterfaceDoc), j, "iface") = {}
        /\ Emitted(fetch(outputs, InterfaceDoc), k, "iface") = {}

\* The positions where a pointer named <base>_ptr is immediately followed by
\* a usize named <base>_len, read off the declaration.
PairsOf(d) ==
    {i \in DOMAIN d.params :
        /\ i + 1 \in DOMAIN d.params
        /\ d.params[i].ty.k = "ptr"
        /\ d.params[i + 1].ty = USize
        /\ Len(d.params[i].name) >= 2
        /\ d.params[i].name[Len(d.params[i].name)] = "ptr"
        /\ d.params[i + 1].name =
              SubSeq(d.params[i].name, 1, Len(d.params[i].name) - 1) \o <<"len">>}

\* The positions where a pointer is immediately followed by a usize.
AdjacentPointerSize(d) ==
    {i \in DOMAIN d.params :
        i + 1 \in DOMAIN d.params /\ d.params[i].ty.k = "ptr" /\ d.params[i + 1].ty = USize}

\* Where input i of a function without callbacks stands in its wrapper.
WrapperSlot(d, i) == i - Cardinality({p \in PairsOf(d) : p + 1 < i})

\* The wrapper w and the import m of the function d, which has no callback.
C5_Merged(d, w, m) ==
    /\ Len(m.params) = Len(d.params)
    /\ Len(w.params) = Len(d.params) - Cardinality(PairsOf(d))
    /\ \A i \in DOMAIN d.params :
        IF i \in PairsOf(d)
        THEN /\ w.params[WrapperSlot(d, i)].name = ToLowerCamel(Base(d.params[i].name))
             /\ w.params[WrapperSlot(d, i)].ty[Len(w.params[WrapperSlot(d, i)].ty)] = "[]"
             /\ m.params[i].ty = w.params[WrapperSlot(d, i)].ty
             /\ m.params[i + 1].name = ToLowerCamel(d.params[i + 1].name)
             /\ m.params[i + 1].ty = <<"ulong">>
             /\ w.body.args[i + 1] =
                   <<"(ulong)">> \o w.params[WrapperSlot(d, i)].name \o <<".Length">>
        ELSE IF i - 1 \in PairsOf(d) THEN TRUE
        ELSE /\ w.params[WrapperSlot(d, i)].name = ToLowerCamel(d.params[i].name)
             /\ w.params[WrapperSlot(d, i)].ty = m.params[i].ty
             /\ m.params[i].name = ToLowerCamel(d.params[i].name)

\* C5: in every processed exported function without callbacks, each
\* <base>_ptr pointer immediately followed by a <base>_len usize is one array
\* parameter <base> of the wrapper, wherever the pair stands, and two
\* parameters of the import; every other parameter, an adjacent pointer and
\* usize with other names included, is a parameter of its own in both.
C5_ArrayPairsMerge ==
    \A j \in DOMAIN input :
        (Processed(j) /\ IsExported(input[j]) /\ Callbacks(input[j]) = {}) =>
            \A w \in Emitted(fetch(outputs, BackendDoc), j, "wrapper") :
                \A m \in Emitted(fetch(outputs, BackendDoc), j, "import") :
                    C5_Merged(input[j], fetch(outputs, BackendDoc)[w],
                              fetch(outputs, BackendDoc)[m])

\* C5 witness: a pair at the head of the list, a pair after another
\* parameter, and a pointer and usize named result and len, all emitted.
C5_Witness ==
    /\ Finalised
    /\ \E i, j, k \in DOMAIN input :
        /\ input[i] = FnArray0 /\ PairsOf(input[i]) = {1}
        /\ input[j] = FnArray1 /\ PairsOf(input[j]) = {2}
        /\ input[k] = FnNoArray /\ PairsOf(input[k]) = {}
        /\ AdjacentPointerSize(input[k]) = {1}
        /\ \A x \in {i, j, k} : Emitted(fetch(outputs, BackendDoc), x, "wrapper") # {}
        /\ \E w \in Emitted(fetch(outputs, BackendDoc), k, "wrapper") :
            Len(fetch(outputs, BackendDoc)[w].params) = 2

\* The struct declared at position j, its declaration in Types.cs and the
\* function signatures that mention it.
C6_Struct(types, backend, j) ==
    LET d == input[j]
        expected == IF PairsOf(d) = {} THEN d.name ELSE d.name \o <<"Native">>
    IN  /\ Cardinality(Emitted(types, j, "struct")) = 1
        /\ \A s \in Emitted(types, j, "struct") : types[s].name = expected
        /\ \A k \in DOMAIN input : \A i \in DOMAIN input[k].params :
            (IsExported(input[k]) /\ input[k].params[i].ty = TNamed(d.name[1])) =>
                \A f \in Emitted(backend, k, "wrapper") \cup Emitted(backend, k, "import") :
                    \E p \in DOMAIN backend[f].params :
                        /\ backend[f].params[p].name = ToLowerCamel(input[k].params[i].name)
                        /\ backend[f].params[p].ty = expected

AliasNames(src) == {src[j].name[1] : j \in {k \in DOMAIN src : src[k].kind = "type"}}

\* What the source declares the alias n to stand for.
AliasTarget(src, n) ==
    (CHOOSE d \in {src[j] : j \in DOMAIN src} : d.kind = "type" /\ d.name = <<n>>).ty

RECURSIVE Expand(_, _)
\* The type t with every alias of the source replaced by what its chain
\* ends in.
Expand(src, t) ==
    IF t.k = "named" /\ t.n \in AliasNames(src) THEN Expand(src, AliasTarget(src, t.n))
    ELSE IF t.k \in {"ptr", "arr", "cb"}
         THEN [t EXCEPT !.args = [i \in DOMAIN t.args |-> Expand(src, t.args[i])]]
    ELSE t

\* The source with the end of its chain written at every use of an alias.
\* The alias declarations stay where they are.
WrittenOut(src) ==
    [j \in DOMAIN src |->
        IF src[j].kind = "type" THEN src[j]
        ELSE [src[j] EXCEPT
                !.ty = Expand(src, src[j].ty),
                !.params = [i \in DOMAIN src[j].params |->
                               Param(src[j].params[i].name,
                                     Expand(src, src[j].params[i].ty))]]]

\* The finalised documents of a successful compilation of src.
DocumentsOf(src, l) ==
    finalise_output(compile_from(src, Configured(l), NoOutputs, 1).lang,
                    compile_from(src, Configured(l), NoOutputs, 1).outputs)

\* Some declaration of the source uses an alias whose chain ends in a
\* primitive.
UsesAlias(src) ==
    \E j \in DOMAIN src : \E n \in NamesUsed(src[j]) :
        n \in AliasNames(src) /\ Expand(src, TNamed(n)).k = "prim"

InRegion(f) == f.frag \in {"delegate", "trampoline"}

\* Fragment a stands for an earlier declaration than fragment b.
Earlier(a, b) == \E j1 \in a.src : \E j2 \in b.src : j1 < j2

\* The fragments the emitters append keep the order of the declarations.
C8_AppendedInOrder(doc) ==
    \A a, b \in DOMAIN doc :
        (~InRegion(doc[a]) /\ ~InRegion(doc[b]) /\ Earlier(doc[a], doc[b])) => a < b

\* The Callbacks region follows every wrapper and import, and its delegates
\* stand in the order of their names, each trampoline behind its delegate.
C8_RegionLast(doc) ==
    /\ \A a, b \in DOMAIN doc :
        (InRegion(doc[a]) /\ doc[b].frag \in {"wrapper", "import"}) => b < a
    /\ \A a, b \in DOMAIN doc :
        (doc[a].frag = "delegate" /\ doc[b].frag = "delegate" /\ a < b) =>
            (NameLeq(doc[a].name, doc[b].name) /\ doc[a].name # doc[b].name)
    /\ \A a \in DOMAIN doc :
        doc[a].frag = "trampoline" =>
            (a - 1 \in DOMAIN doc /\ doc[a - 1].frag = "delegate"
                /\ doc[a].name = <<"On">> \o doc[a - 1].name)

\* C8 (as amended): in every finalised document the type declarations,
\* constants, wrappers, imports and interface entries stand in the order of
\* their declarations in the source; the delegates and trampolines of all
\* functions stand behind them in one region, in the order of the delegate
\* names.
C8_OrderWithCallbacksRegion ==
    Finalised =>
        \A d \in Docs : C8_AppendedInOrder(fetch(outputs, d)) /\ C8_RegionLast(fetch(outputs, d))

\* C8 witness: the delegate of the first function stands behind the wrapper
\* of a later one, and two imports stand in source order.
C8_Witness ==
    /\ Finalised
    /\ \E a, b, c \in DOMAIN fetch(outputs, BackendDoc) :
        /\ fetch(outputs, BackendDoc)[a].frag = "delegate"
        /\ fetch(outputs, BackendDoc)[b].frag = "wrapper"
        /\ fetch(outputs, BackendDoc)[c].frag = "import"
        /\ Earlier(fetch(outputs, BackendDoc)[a], fetch(outputs, BackendDoc)[b])
        /\ Earlier(fetch(outputs, BackendDoc)[c], fetch(outputs, BackendDoc)[b])
        /\ c < b
        /\ b < a

\* C8 as stated: every fragment emitted for an earlier declaration stands
\* before every fragment emitted for a later one.
C8_SourceOrder ==
    Finalised =>
        \A d \in Docs : \A a, b \in DOMAIN fetch(outputs, d) :
            Earlier(fetch(outputs, d)[a], fetch(outputs, d)[b]) => a < b

\* The step in which compile finalises the documents.
Finalising == phase = "parsing" /\ phase' = "done" /\ finalised'

\* Finalisation has nothing of its own to write into document d: no opaque
\* type for Types.cs, no custom constant for Constants.cs, no callback for
\* Backend.cs.
NothingRegistered(l, d) ==
    CASE d = TypesDoc -> l.opaque = <<>>
      [] d = ConstantsDoc -> l.custom = <<>>
      [] d = BackendDoc -> l.callbacks = {}
      [] OTHER -> TRUE

\* The finalised document: the fragments of the pass between the preamble
\* and the closing braces.
Wrapped(before, after, d) ==
    /\ Len(after) >= Len(before) + 2
    /\ Head(after) = Preamble(d)
    /\ after[Len(after)] = Footer(d)
    /\ SubSeq(after, 2, Len(before) + 1) = before
    /\ \A i \in DOMAIN after : (after[i].frag = "preamble") <=> (i = 1)

C9_Finalise ==
    Finalising =>
        \A d \in Docs :
            /\ (fetch(outputs, d) = <<>> /\ NothingRegistered(lang, d))
                  => fetch(outputs', d) = <<>>
            /\ ~(fetch(outputs, d) = <<>> /\ NothingRegistered(lang, d))
                  => Wrapped(fetch(outputs, d), fetch(outputs', d), d)

\* C9 (as amended): finalisation leaves a document empty when it received
\* no fragment during the pass and nothing is registered for it (opaque
\* types for Types.cs, custom constants for Constants.cs, callbacks for
\* Backend.cs); every other document is wrapped: its preamble first, the
\* fragments of the pass next, the closing braces last.  So every finalised
\* document is empty or begins with its preamble.
C9_EmptyOrWrapped == [][C9_Finalise]_vars

\* C9 witness: finalised documents of which Types.cs holds only a registered
\* opaque type, Backend.cs the fragments of a function, and IBackend.cs
\* nothing.
C9_Witness ==
    /\ Finalised
    /\ input # <<>>
    /\ \A j \in DOMAIN input : input[j].kind = "fn"
    /\ fetch(outputs, TypesDoc) # <<>>
    /\ Head(fetch(outputs, TypesDoc)) = Preamble(TypesDoc)
    /\ Emitted(fetch(outputs, BackendDoc), 1, "wrapper") # {}
    /\ Head(fetch(outputs, BackendDoc)) = Preamble(BackendDoc)
    /\ fetch(outputs, InterfaceDoc) = <<>>

C9_Stated ==
    Finalising =>
        \A d \in Docs :
            /\ fetch(outputs', d) = <<>> \/ Head(fetch(outputs', d)) = Preamble(d)
            /\ fetch(outputs, d) = <<>> => fetch(outputs', d) = <<>>
            /\ fetch(outputs, d) # <<>> => Head(fetch(outputs', d)) = Preamble(d)

\* C9 as stated: every finalised document is empty or begins with its
\* preamble; a document that received no fragment during the pass finalises
\* to the empty string, one that received a fragment is wrapped.
C9_ZeroFragmentsEmpty == [][C9_Stated]_vars

Returned == phase \in {"done", "failed"}

\* The declaration at position j of the source has a parameter no mapping
\* rule covers, so that its emitter returns an error wherever it stands.
FailingDeclaration(src, j) ==
    /\ src[j].kind = "fn"
    /\ Exported \subseteq src[j].attrs
    /\ \E i \in DOMAIN src[j].params : PointerDepth(src[j].params[i].ty) > 2

FailingDeclarations(src) == {j \in DOMAIN src : FailingDeclaration(src, j)}

\* C11: when the compilation has returned, the error list holds one error
\* for every failing declaration of the input.  The loop of
\* compile_from_source returns at the first error instead (the `?`), so
\* this does not hold of an input with two failing declarations.
C11_OneErrorPerFailingDeclaration ==
    Returned =>
        /\ Len(errors) = Cardinality(FailingDeclarations(input))
        /\ \A j \in FailingDeclarations(input) :
            \E e \in DOMAIN errors : errors[e].decl = j

\* The step in which a declaration fails.
DeclarationFails == phase = "parsing" /\ phase' = "failed"

C12_Frame == DeclarationFails => outputs' = outputs

\* Every fragment of every document was emitted for declarations the loop
\* has taken without an error.
C12_NoPartial ==
    \A d \in DOMAIN outputs : \A a \in DOMAIN outputs[d] :
        \A j \in outputs[d][a].src : j < pc /\ ~FailingDeclaration(input, j)

\* C12: the step in which a declaration fails leaves every document as it
\* was, and no document ever holds a fragment of a failing declaration.
C12_FailureLeavesDocuments == [][C12_Frame]_vars /\ []C12_NoPartial

\* C12 witness: a declaration has failed after an earlier one had put a
\* wrapper and an import into Backend.cs, which are all it holds.
C12_Witness ==
    /\ phase = "failed"
    /\ pc = 2
    /\ FailingDeclaration(input, 2)
    /\ Len(fetch(outputs, BackendDoc)) = 2
    /\ \A a \in DOMAIN fetch(outputs, BackendDoc) : fetch(outputs, BackendDoc)[a].src = {1}

\* The type names the items before position j declare.
DeclaredBefore(src, j) == UNION {Declares(src[k]) : k \in {k \in DOMAIN src : k < j}}

\* The named types of the declaration at j that are no alias, struct or enum
\* seen earlier and no registered opaque type.
UnknownNames(src, l, j) ==
    {n \in NamesUsed(src[j]) :
        /\ n \notin DeclaredBefore(src, j)
        /\ \A i \in DOMAIN l.opaque : l.opaque[i] # n}

\* A declaration the backend emits something for.
Emittable(d) == IsExported(d) \/ (d.kind = "struct" /\ "repr_c" \in d.attrs)

\* The host type of a field or parameter that names an unknown type, as it
\* is written: the name, the name with [] for an array of it, ref and the
\* name for a pointer to it as a parameter.
AsWritten(p, r, unknown, isParam) ==
    /\ (p.ty.k = "named" /\ p.ty.n \in unknown) => r.ty = <<p.ty.n>>
    /\ (p.ty.k = "arr" /\ p.ty.args[1].k = "named" /\ p.ty.args[1].n \in unknown) =>
            r.ty = <<p.ty.args[1].n, "[]">>
    /\ (isParam /\ p.ty.k = "ptr" /\ p.ty.args[1].k = "named" /\ p.ty.args[1].n \in unknown) =>
            r.mod = "ref" /\ r.ty = <<p.ty.args[1].n>>

\* The declaration at j is in its document, with the unknown names as written.
C13_Emitted(j) ==
    LET d == input[j]
        unknown == UnknownNames(input, lang, j)
        doc == fetch(outputs, IF d.kind = "struct" THEN TypesDoc ELSE BackendDoc)
        frags == Emitted(doc, j, IF d.kind = "struct" THEN "struct" ELSE "import")
    IN  /\ Cardinality(frags) = 1
        /\ \A a \in frags :
            /\ DOMAIN doc[a].params = DOMAIN d.params
            /\ \A i \in DOMAIN d.params :
                AsWritten(d.params[i], doc[a].params[i], unknown, d.kind = "fn")

\* C13 (as the backend's tests have it): a named type that is no alias, no
\* registered opaque type and no struct or enum seen earlier stays as it is
\* written.  No declaration fails with UnresolvedTypeError because of such a
\* name, and in the finalised documents a struct or an exported function
\* that uses one is emitted with the name as its host type.
C13_UnknownNamesPassThrough ==
    /\ (phase = "failed" /\ errors[1].err = "UnresolvedTypeError") =>
            UnknownNames(input, lang, errors[1].decl) = {}
    /\ Finalised =>
        \A j \in DOMAIN input :
            (Emittable(input[j]) /\ UnknownNames(input, lang, j) # {}) => C13_Emitted(j)

\* C13 witness: the finalised documents of the struct Record, whose fields
\* name the undeclared Widget and Gadget, and of a function that takes a
\* pointer to the undeclared FfiResult.
C13_Witness ==
    /\ Finalised
    /\ \E j \in DOMAIN input :
        /\ input[j].kind = "struct"
        /\ {"Widget", "Gadget"} \subseteq UnknownNames(input, lang, j)
        /\ Emitted(fetch(outputs, TypesDoc), j, "struct") # {}
    /\ \E j \in DOMAIN input :
        /\ IsExported(input[j])
        /\ Callbacks(input[j]) = {}
        /\ "FfiResult" \in UnknownNames(input, lang, j)
        /\ Emitted(fetch(outputs, BackendDoc), j, "import") # {}

\* C13 as stated: no struct or exported function that names an unknown type
\* is taken by the loop without an error.
C13_UnknownNamesFail ==
    \A j \in DOMAIN input :
        (Processed(j) /\ Emittable(input[j])) => UnknownNames(input, lang, j) = {}

\* The parameters of a callback after the user-data slot: types and names.
PayloadTypes(cb) == SubSeq(cb.args, 2, Len(cb.args))

PayloadNames(cb) == IF cb.names = <<>> THEN <<>> ELSE SubSeq(cb.names, 2, Len(cb.names))

\* The last two of the first n parameters are a pointer and a usize named
\* <base>_ptr and <base>_len.
EndsInPair(tys, names, n) ==
    /\ n >= 2
    /\ n <= Len(names)
    /\ tys[n - 1].k = "ptr"
    /\ tys[n] = USize
    /\ Len(names[n - 1]) >= 2
    /\ Len(names[n]) >= 2
    /\ names[n - 1][Len(names[n - 1])] = "ptr"
    /\ names[n][Len(names[n])] = "len"
    /\ SubSeq(names[n - 1], 1, Len(names[n - 1]) - 1) = SubSeq(names[n], 1, Len(names[n]) - 1)

RECURSIVE ShapeOf(_, _, _)
\* What the first n parameters after the user-data slot contribute to the
\* delegate name.
ShapeOf(tys, names, n) ==
    IF n = 0 THEN <<>>
    ELSE IF EndsInPair(tys, names, n)
         THEN ShapeOf(tys, names, n - 2) \o TypeName(tys[n - 1].args[1]) \o <<"List">>
    ELSE IF tys[n].k = "arr"
         THEN ShapeOf(tys, names, n - 1) \o TypeName(tys[n].args[1]) \o <<"Array">>
                \o (IF tys[n].names = <<>> THEN <<tys[n].n>> ELSE ToUpperCamel(tys[n].names[1]))
    ELSE ShapeOf(tys, names, n - 1) \o TypeName(tys[n])

\* The delegate name the statement gives a callback.
StatedName(cb) ==
    (IF PayloadTypes(cb) = <<>> THEN <<"None">>
     ELSE ShapeOf(PayloadTypes(cb), PayloadNames(cb), Len(PayloadTypes(cb)))) \o <<"Cb">>

\* The fragments of a kind and a name in a document.
Named(doc, what, name) == {a \in DOMAIN doc : doc[a].frag = what /\ doc[a].name = name}

\* The callback at parameter i of the function at j, in Backend.cs: the
\* import names the delegate, which is declared once, for this function
\* among others; its trampoline, when there is one, is named On<delegate>
\* and is the only one; a function with this single callback has it.
C14_Delegate(doc, j, i) ==
    LET name == StatedName(Resolve(lang.aliases, input[j].params[i].ty))
        delegates == Named(doc, "delegate", name)
        trampolines == Named(doc, "trampoline", <<"On">> \o name)
    IN  /\ \A a \in Emitted(doc, j, "import") : doc[a].params[i].ty = name
        /\ Cardinality(delegates) = 1
        /\ \A a \in delegates : j \in doc[a].src
        /\ Cardinality(trampolines) <= 1
        /\ Cardinality(Callbacks(input[j])) = 1 =>
                \E a \in trampolines : j \in doc[a].src

ConstantsAt(doc) == {a \in DOMAIN doc : doc[a].frag = "const"}

SourceConstants(doc) == {a \in ConstantsAt(doc) : doc[a].src # {}}

CustomConstantsAt(doc) == ConstantsAt(doc) \ SourceConstants(doc)

\* The number of custom constants that stand before position a.
CustomRank(doc, a) == Cardinality({b \in CustomConstantsAt(doc) : b <= a})

C15_Order(doc) ==
    /\ \A a \in SourceConstants(doc) : \A b \in CustomConstantsAt(doc) : a < b
    /\ \A j \in DOMAIN input :
        input[j].kind = "const" =>
            \E a \in SourceConstants(doc) : doc[a].src = {j} /\ doc[a].name = input[j].name
    /\ \A a \in SourceConstants(doc) : \A b \in SourceConstants(doc) :
        (\E j \in doc[a].src : \E k \in doc[b].src : j < k) => a < b
    /\ Cardinality(CustomConstantsAt(doc)) = Len(lang.custom)
    /\ \A a \in CustomConstantsAt(doc) :
        /\ doc[a].name = <<lang.custom[CustomRank(doc, a)].name>>
        /\ doc[a].ret = <<lang.custom[CustomRank(doc, a)].ty>>
        /\ doc[a].body.call = <<lang.custom[CustomRank(doc, a)].value>>

\* C15: in the finalised Constants.cs every custom constant stands after
\* every constant of the source, the constants of the source stand in
\* source order, and the custom constants in the order of their
\* registration.
C15_ConstantsOrder == Finalised => C15_Order(fetch(outputs, ConstantsDoc))

\* C15 witness: two constants of the source and two custom constants, all
\* different, are in the finalised Constants.cs.
C15_Witness ==
    /\ Finalised
    /\ Cardinality({input[j].name : j \in {k \in DOMAIN input : input[k].kind = "const"}}) = 2
    /\ Len(lang.custom) = 2
    /\ lang.custom[1] # lang.custom[2]
    /\ Cardinality(ConstantsAt(fetch(outputs, ConstantsDoc))) >= 4

\* The positions of the root file that hold a declaration of a kind with
\* an emitter.
RootDeclarations == {j \in DOMAIN input : input[j].kind \in {"struct", "enum", "type", "fn", "const"}}

\* C17, for a root source file: when the compilation has returned Ok, every
\* declaration of the root file was handed to the emitter of its kind, in
\* source order.  compile_from_path hands over the constants only, so this
\* does not hold of a root file that declares an enum or a function.
C17_RootDeclarationsFed ==
    (file.path /\ phase = "done") =>
        /\ \A j \in RootDeclarations :
            \E a \in DOMAIN file.fed : file.fed[a] = Fed("", j, input[j])
        /\ \A a \in DOMAIN file.fed : \A b \in DOMAIN file.fed :
            (file.fed[a].module = "" /\ file.fed[b].module = ""
                /\ file.fed[a].decl < file.fed[b].decl) => a < b

\* Once compile has returned an error list, the next step of the build
\* prints every error of the list and panics, writing no file.
C18_Frame ==
    (build.on /\ phase = "failed") =>
        /\ phase' = "panicked"
        /\ build'.printed = errors
        /\ build'.dir = build.dir

\* After a compilation error the output directory holds what it held before
\* the build.
C18_NothingWritten ==
    (build.on /\ errors # <<>>) =>
        /\ build.dir = build.before
        /\ phase \in {"failed", "panicked"}
        /\ phase = "panicked" => build.printed = errors

\* C18: run_build panics on any compilation error: once compile has returned
\* an error list, the next step of the build prints every error of the list
\* and panics, the files of the output directory are what they were before
\* the build, and write_outputs is never reached.
C18_BuildPanicsOnError == [][C18_Frame]_vars /\ []C18_NothingWritten

\* A build of a source whose second declaration fails, into a directory that
\* holds the files of an earlier build: the error was printed, the call
\* panicked, and the fragments of the first declaration are in the map only.
C18_Witness ==
    /\ build.on
    /\ phase = "panicked"
    /\ errors # <<>>
    /\ build.printed = errors
    /\ outputs # NoOutputs
    /\ build.before = OlderBuild
    /\ build.dir = OlderBuild

\* The declaration is a #[repr(C)] struct or an exported function with more
\* than one <base>_ptr/<base>_len pair.
MoreThanOnePair(d) ==
    /\ Cardinality(PairsOf(d)) > 1
    /\ \/ d.kind = "struct" /\ "repr_c" \in d.attrs
       \/ IsExported(d)

\* The struct at position j is declared once in Types.cs, as <Name>Native,
\* with one field for each field of the source, in order: the pointer as an
\* IntPtr and the length as a ulong, each under its own name.
C19_Struct(types, j) ==
    LET d == input[j]
    IN  /\ Cardinality(Emitted(types, j, "struct")) = 1
        /\ \A s \in Emitted(types, j, "struct") :
            /\ types[s].name = d.name \o <<"Native">>
            /\ Len(types[s].params) = Len(d.params)
            /\ \A i \in DOMAIN d.params :
                /\ types[s].params[i].name = ToUpperCamel(d.params[i].name)
                /\ i \in PairsOf(d) => types[s].params[i].ty = <<"IntPtr">>
                /\ i - 1 \in PairsOf(d) => types[s].params[i].ty = <<"ulong">>

\* C19 (as the code has it): a #[repr(C)] struct with more than one
\* <base>_ptr/<base>_len pair whose fields all have a mapping is no error:
\* it is emitted as <Name>Native with every field of every pair on its own.
C19_TwoPairStructEmitted ==
    \A j \in DOMAIN input :
        (input[j].kind = "struct" /\ MoreThanOnePair(input[j])) =>
            /\ \A e \in DOMAIN errors : errors[e].decl # j
            /\ Processed(j) => C19_Struct(fetch(outputs, TypesDoc), j)

\* The struct Entry of two pairs was processed, and a function taking it
\* after it: both are in the documents.
C19_Witness ==
    /\ phase = "done"
    /\ finalised
    /\ \E j \in DOMAIN input : \E k \in DOMAIN input :
        /\ j < k
        /\ input[j] = StructEntry
        /\ input[k] = FnEntry
        /\ Emitted(fetch(outputs, TypesDoc), j, "struct") # {}
        /\ Emitted(fetch(outputs, BackendDoc), k, "wrapper") # {}

\* C19 (as stated): a struct or function with more than one pair fails with
\* an error and nothing is emitted for it.
C19_TwoPairsFail ==
    \A j \in DOMAIN input :
        MoreThanOnePair(input[j]) =>
            /\ ~Processed(j)
            /\ \A d \in Docs : FragsOf(fetch(outputs, d), j) = {}

\* No document holds a preamble or a footer.
Unfinalised(outs) ==
    \A d \in DOMAIN outs : \A i \in DOMAIN outs[d] :
        outs[d][i] # Preamble(d) /\ outs[d][i] # Footer(d)

\* The step of compile that invokes finalise_output is the one that returns
\* Ok, after the last item, without any error, and it is the only one; when
\* compile returns Ok with the flag unset, or returns an error, the
\* documents are left as the emitters wrote them.
C20_Frame ==
    /\ (~finalised /\ finalised') =>
            /\ phase = "parsing"
            /\ phase' = "done"
            /\ pc = Len(input) + 1
            /\ errors = <<>>
            /\ errors' = <<>>
            /\ outputs' = finalise_output(lang, outputs)
    /\ finalised => (finalised' /\ outputs' = outputs)
    /\ (phase = "parsing" /\ phase' = "done" /\ ~finalised') => outputs' = outputs
    /\ (phase = "parsing" /\ phase' = "failed") => (~finalised' /\ outputs' = outputs)

\* After an error the documents are those the declarations before the
\* failing one produced, un-finalised.
C20_AfterError ==
    phase = "failed" =>
        /\ ~finalised
        /\ Unfinalised(outputs)
        /\ outputs = compile_from(SubSeq(input, 1, pc - 1), Configured(lang),
                                  NoOutputs, 1).outputs

\* C20: in compile, finalise_output is invoked at most once per call, only
\* when the finalise flag is set and only after every declaration of the
\* input was processed without error; when a declaration fails, compile
\* returns the error without finalising and the outputs map keeps the
\* un-finalised fragments appended before the failure.
C20_FinaliseOnceAfterSuccess == [][C20_Frame]_vars /\ []C20_AfterError

\* A compilation that failed after a declaration that wrote fragments: they
\* are in the map, without preamble or footer.
C20_Witness ==
    /\ phase = "failed"
    /\ pc > 1
    /\ ~finalised
    /\ \E d \in Docs : fetch(outputs, d) # <<>>

\* The modules the `use` items of the root file name.
UsedModules == {input[j].name[1] : j \in {i \in DOMAIN input : input[i].kind = "use"}} \ {""}

\* What was handed to the backend for the root file is its constants, each
\* constant passed by the first loop was handed over, and all of that stands
\* before anything of a module.
C21_RootConstantsFirst ==
    /\ \A a \in DOMAIN file.fed :
        file.fed[a].module = "" =>
            /\ file.fed[a].kind = "const"
            /\ input[file.fed[a].decl].kind = "const"
    /\ \A j \in DOMAIN input :
        (j < pc /\ input[j].kind = "const") =>
            \E a \in DOMAIN file.fed : file.fed[a] = Fed("", j, input[j])
    /\ \A a \in DOMAIN file.fed : \A b \in DOMAIN file.fed :
        (file.fed[a].module = "" /\ file.fed[b].module # "") => a < b
    /\ file.parsed # <<>> => pc = Len(input) + 1

\* The modules parsed so far are among those the `use` items name, in
\* strictly ascending order of their path (so none twice); when compile
\* returns Ok every one of them was parsed.
C21_ModulesAscending ==
    /\ \A i \in DOMAIN file.parsed : file.parsed[i] \in UsedModules
    /\ \A i \in DOMAIN file.parsed : \A k \in DOMAIN file.parsed :
        i < k => ModuleRank(file.parsed[i]) < ModuleRank(file.parsed[k])
    /\ phase = "done" => {file.parsed[i] : i \in DOMAIN file.parsed} = UsedModules

\* C21: in compile_from_path all constants of the root file are handed to
\* the backend before any imported module is parsed; the imported modules
\* are then parsed once each in ascending order of their module path,
\* whatever the order and multiplicity of the `use` items naming them; and
\* structs, enums, functions and type aliases of the root file are never
\* handed to the backend.
C21_RootConstantsThenModules ==
    file.path => (C21_RootConstantsFirst /\ C21_ModulesAscending)

\* A root file that names module b before module a, and b twice: compile
\* returned Ok having parsed a, then b, once each.
C21_Witness ==
    /\ file.path
    /\ phase = "done"
    /\ \E i \in DOMAIN input : \E j \in DOMAIN input : \E k \in DOMAIN input :
        /\ i < j /\ j < k
        /\ input[i] = Use("b")
        /\ input[j] = Use("a")
        /\ input[k] = Use("b")
    /\ file.parsed = <<"a", "b">>
    /\ \E a \in DOMAIN file.fed : file.fed[a].module = "b"

\* The normal components of the file name, without a trailing src/lib.rs.
ModuleOf(name) ==
    LET res == SelectSeq(name, Normal)
        n == Len(res)
    IN  IF n >= 2 /\ res[n - 1] = "src" /\ res[n] = "lib.rs"
        THEN SubSeq(res, 1, n - 2) ELSE res

\* C22: convert_lib_path_to_module is total: for every file name, also one
\* with fewer than two normal components, compile on a source_code input
\* does not panic, and the module is the list of the normal components
\* without a trailing src/lib.rs.  The slice res[(res.len() - 2)..] panics
\* when the name has fewer than two normal components, so this does not
\* hold of the file name "lib.rs".
C22_ConversionTotal ==
    (source.named /\ phase # "new") =>
        /\ phase # "panicked"
        /\ source.module = ModuleOf(source.file_name)

====
